---- MODULE Spec2Model ----
(***************************************************************************)
(* serde_traitobject: serialization of trait objects.                      *)
(*                                                                         *)
(* One session is modelled: a value is serialized in one process           *)
(* (src/src/lib.rs serialize, SerializerTrait impls), the encoded value    *)
(* travels as a structured wire value (the serde data model: integers,     *)
(* strings, sequences and tuples), possibly damaged in flight, and is      *)
(* deserialized in a process (lib.rs deserialize, DeserializerTrait impls, *)
(* Visitor::visit_seq).  Each call of the default (trait object) impls is  *)
(* broken into the codec calls it makes, so that the order of the steps    *)
(* is visible.                                                             *)
(***************************************************************************)
EXTENDS Integers, Sequences, FiniteSets, TLC

\* ------------------------------------------------------------------------
\* Bounds of the model
\* ------------------------------------------------------------------------

\* Width of a machine word (usize) in bits; addresses and offsets wrap
\* modulo 2^WordBits.
WordBits == 4

\* At most this many fields of a wire value are damaged in flight.
MaxCorrupt == 1

\* A Box<dyn Any> that is serialized holds at most this many further
\* Box<dyn Any> inside of it.
MaxNest == 1

\* An Rc or Arc has at most this many handles at a time.
MaxHandles == 4

WordMod == 2 ^ WordBits

\* ------------------------------------------------------------------------
\* Types, traits and values of the program under test (tests/test.rs)
\* ------------------------------------------------------------------------

\* Trait object types that are (de)serialized.
Traits == {"dyn Hello", "dyn Any", "dyn Debug"}

\* Sized concrete types.  "Box<dyn Any>" is the wrapper
\* serde_traitobject::Box<dyn serde_traitobject::Any>.
SizedTypes == {"u8", "u16", "String", "Box<dyn Any>"}

\* Unsized types with a native serde representation.
SliceTypes == {"str", "[u16]"}

\* An unsized type that is none of str, a slice and a trait object, and
\* that has a Serialize impl of serde: std::path::Path, written as a string.
\* It has no Deserialize impl.
OtherUnsized == {"Path"}

\* The static types T that serialize::<T> and deserialize::<T> are called
\* with.  With T = Box<dyn Any> the impl for sized types calls the
\* Serialize or Deserialize impl of the wrapper, which calls
\* serialize::<dyn Any> or deserialize::<dyn Any> on the same codec: the
\* call with T = dyn Any.
StaticTypes == (SizedTypes \ {"Box<dyn Any>"}) \cup SliceTypes \cup Traits

\* Which concrete types implement which trait: Hello is implemented for the
\* unsigned integers only, Any and Debug are blanket impls.
Implements(c, t) ==
    CASE t = "dyn Hello" -> c \in {"u8", "u16"}
      [] t = "dyn Any" -> c \in SizedTypes
      [] t = "dyn Debug" -> c \in {"u8", "u16", "String"}
      [] OTHER -> FALSE

\* The values of each type that are exercised.  The data of a value is a
\* sequence of integers: one integer for a number, the character codes for a
\* string, the elements for a slice; for a Box<dyn Any> the vtable address
\* of the fat pointer followed by the data it points to (see BoxValues).
ValuesOf(c) ==
    CASE c = "u8" -> {<<78>>, <<101>>}
      [] c = "u16" -> {<<123>>, <<456>>}
      [] c = "String" -> {<<97, 98>>}
      [] c = "str" -> {<<103, 104>>}
      [] c = "[u16]" -> {<<>>, <<1, 2, 300>>}
      [] c = "Path" -> {<<47, 97>>}
      [] OTHER -> {}

\* The concrete type a value of static type ty can have.
ConcreteTypesOf(ty) ==
    IF ty \in Traits THEN {c \in SizedTypes : Implements(c, ty)} ELSE {ty}

\* metatype::type_id::<T>(): a 64-bit fingerprint per type, distinct for
\* distinct types.
AllTypes == <<"u8", "u16", "String", "str", "[u16]",
              "dyn Hello", "dyn Any", "dyn Debug", "Box<dyn Any>", "Path">>

type_id(ty) == CHOOSE i \in 1..Len(AllTypes) : AllTypes[i] = ty

\* ------------------------------------------------------------------------
\* Processes, binaries and the layout of their vtables
\* ------------------------------------------------------------------------

\* A and B are two invocations of the same binary, loaded at different
\* addresses; C is an invocation of a different binary.
Procs == {"A", "B", "C"}

\* build_id::get(): one identifier per binary.
build_id(p) == IF p = "C" THEN 2 ELSE 1

BuildIds == {build_id(p) : p \in Procs}

VT(c, t) == [ctype |-> c, trait |-> t]

Anchor == [ctype |-> "anchor", trait |-> "anchor"]

\* The vtables of a binary in the order the linker laid them out.  The
\* anchor is the vtable of the static trait object of the relative crate.
\* The compiler emits a vtable where a reference is coerced to a trait
\* object and does not always merge the vtables of one type and trait: the
\* binaries hold two vtables of u16 as dyn Any.
Image(b) ==
    IF b = 1
    THEN << VT("u8", "dyn Hello"), VT("u16", "dyn Hello"), VT("u8", "dyn Any"),
            Anchor,
            VT("u16", "dyn Any"), VT("String", "dyn Any"),
            VT("u8", "dyn Debug"), VT("u16", "dyn Debug"),
            VT("String", "dyn Debug"), VT("Box<dyn Any>", "dyn Any"),
            VT("u16", "dyn Any") >>
    ELSE << Anchor, VT("Box<dyn Any>", "dyn Any"),
            VT("String", "dyn Debug"), VT("u16", "dyn Debug"),
            VT("u8", "dyn Debug"),
            VT("String", "dyn Any"), VT("u16", "dyn Any"), VT("u8", "dyn Any"),
            VT("u16", "dyn Hello"), VT("u8", "dyn Hello"),
            VT("u16", "dyn Any") >>

\* Where the loader placed the image in the process.
LoadBase(p) ==
    CASE p = "A" -> 2
      [] p = "B" -> 11
      [] p = "C" -> 5

\* The places of the vtables of e in the image.
IndicesOf(b, e) == {i \in 1..Len(Image(b)) : Image(b)[i] = e}

\* The addresses of the vtables of e in process p: one for each vtable of
\* that type and trait in the binary.
AddrsOf(p, e) == {(LoadBase(p) + i) % WordMod : i \in IndicesOf(build_id(p), e)}

\* The address of the static base vtable, of which a binary has one.
AnchorAddr(p) == CHOOSE a \in AddrsOf(p, Anchor) : TRUE

NoVtable == [ctype |-> "none", trait |-> "none"]

\* What lives at address a in process p.
VtableAt(p, a) ==
    LET img == Image(build_id(p))
        hits == {i \in 1..Len(img) : (LoadBase(p) + i) % WordMod = a}
    IN  IF hits = {} THEN NoVtable ELSE img[CHOOSE i \in hits : TRUE]

\* The fat pointers that a reference to the value v as a dyn t can be in
\* process p: the address of one of the vtables of its type and the trait,
\* followed by the data.
FatPointers(p, t, v) == {<< a >> \o v.data : a \in AddrsOf(p, VT(v.ctype, t))}

\* Whether a vtable of the trait object type ty lives at address a.
ValidVtable(p, ty, a) == VtableAt(p, a).trait = ty

\* The data of the Box<dyn Any> values of process p with at most n boxes
\* nested: the innermost value is the u16 456.
RECURSIVE BoxValues(_, _)
BoxValues(p, n) ==
    IF n = 0 THEN {}
    ELSE { << a, 456 >> : a \in AddrsOf(p, VT("u16", "dyn Any")) }
         \cup { << a >> \o d :
                 a \in AddrsOf(p, VT("Box<dyn Any>", "dyn Any")),
                 d \in BoxValues(p, n - 1) }

\* The values of the concrete type c in process p.
ValuesIn(p, c) == IF c = "Box<dyn Any>" THEN BoxValues(p, MaxNest) ELSE ValuesOf(c)

\* ------------------------------------------------------------------------
\* Wire values: the serde data model
\* ------------------------------------------------------------------------

WInt(n) == [tag |-> "int", n |-> n, elems |-> <<>>]

WSeq(tag, es) == [tag |-> tag, n |-> Len(es), elems |-> es]

WInts(data) == [i \in 1..Len(data) |-> WInt(data[i])]

IsInt(w, lo, hi) == w.tag = "int" /\ w.n >= lo /\ w.n <= hi

RECURSIVE AllInts(_, _, _)
AllInts(es, lo, hi) ==
    IF es = <<>> THEN TRUE
    ELSE IsInt(Head(es), lo, hi) /\ AllInts(Tail(es), lo, hi)

IntsOf(es) == [i \in 1..Len(es) |-> es[i].n]

\* serde::ser::Serialize::serialize of the concrete type c.
\* Mutant: the u16 encoder keeps only the low byte.
NativeSerializeLowByte(c, data) ==
    CASE c = "u8" -> WInt(data[1])
      [] c = "u16" -> WInt(data[1] % 256)
      [] c \in {"String", "str", "Path"} -> WSeq("str", WInts(data))
      [] c = "[u16]" -> WSeq("seq", WInts(data))

NativeSerialize(c, data) ==
    CASE c \in {"u8", "u16"} -> WInt(data[1])
      [] c \in {"String", "str", "Path"} -> WSeq("str", WInts(data))
      [] c = "[u16]" -> WSeq("seq", WInts(data))

DecOk(data) == [ok |-> TRUE, data |-> data]

DecErr == [ok |-> FALSE, data |-> <<>>]

\* serde::de::Deserialize::deserialize of the concrete type c.
NativeDeserialize(c, w) ==
    CASE c = "u8" -> IF IsInt(w, 0, 255) THEN DecOk(<<w.n>>) ELSE DecErr
      [] c = "u16" -> IF IsInt(w, 0, 65535) THEN DecOk(<<w.n>>) ELSE DecErr
      [] c \in {"String", "str"} ->
            IF w.tag = "str" /\ AllInts(w.elems, 0, 255)
            THEN DecOk(IntsOf(w.elems)) ELSE DecErr
      [] c = "[u16]" ->
            IF w.tag = "seq" /\ AllInts(w.elems, 0, 65535)
            THEN DecOk(IntsOf(w.elems)) ELSE DecErr
      [] OTHER -> DecErr

\* ------------------------------------------------------------------------
\* relative::Vtable<T>: the vtable pointer as sent over the wire
\* ------------------------------------------------------------------------

\* Mutant: the absolute address is sent instead of the displacement.
VtableFromAbsolute(p, addr) == addr

\* Mutant: the subtraction saturates at zero instead of wrapping.
VtableFromSaturating(p, addr) ==
    IF addr < AnchorAddr(p) THEN 0 ELSE addr - AnchorAddr(p)

\* Vtable::<T>::from(vtable): the address relative to the anchor vtable of
\* this process, as a wrapping usize.
VtableFrom(p, addr) == (addr - AnchorAddr(p)) % WordMod

\* Mutant: the displacement is subtracted from the anchor.
VtableToSub(p, off) == (AnchorAddr(p) - off) % WordMod

\* Vtable::to(): the address in this process.
VtableTo(p, off) == (AnchorAddr(p) + off) % WordMod

\* Serialize for Vtable<T>: the build id, the type id of the trait object
\* type T, and the relative address.
VtableSerialize(p, t, off) ==
    WSeq("tuple", << WInt(build_id(p)), WInt(type_id(t)), WInt(off) >>)

VtOk(off) == [ok |-> TRUE, err |-> "", off |-> off]

VtErr(e) == [ok |-> FALSE, err |-> e, off |-> 0]

\* Mutant: the type id of the trait object is not checked.
VtableDeserializeNoTypeCheck(p, t, w) ==
    IF ~(w.tag = "tuple" /\ Len(w.elems) = 3 /\ AllInts(w.elems, 0, WordMod - 1))
    THEN VtErr("codec")
    ELSE IF w.elems[1].n # build_id(p) THEN VtErr("build")
    ELSE VtOk(w.elems[3].n)

\* Mutant: the build id is not checked.
VtableDeserializeNoBuildCheck(p, t, w) ==
    IF ~(w.tag = "tuple" /\ Len(w.elems) = 3 /\ AllInts(w.elems, 0, WordMod - 1))
    THEN VtErr("codec")
    ELSE IF w.elems[2].n # type_id(t) THEN VtErr("type")
    ELSE VtOk(w.elems[3].n)

\* Deserialize for Vtable<T>: the build id and the type id of T are compared
\* with those of this process before a Vtable is handed out.
VtableDeserialize(p, t, w) ==
    IF ~(w.tag = "tuple" /\ Len(w.elems) = 3 /\ AllInts(w.elems, 0, WordMod - 1))
    THEN VtErr("codec")
    ELSE IF w.elems[1].n # build_id(p) THEN VtErr("build")
    ELSE IF w.elems[2].n # type_id(t) THEN VtErr("type")
    ELSE VtOk(w.elems[3].n)

\* ------------------------------------------------------------------------
\* Selection of the impl by specialisation
\* ------------------------------------------------------------------------

\* metatype::Type::meta_type(t), as the set of the answers it can give for
\* the type.  The crate is not part of this source: for a sized type, str, a
\* slice and a trait object the answer is the kind of the type, which is
\* what the impls of lib.rs rely on; for an unsized type of another kind
\* the source does not tell, and every answer is taken.
\* Mutant: what is not a slice is taken for a concrete type.
meta_typeNoTraitObject(ty) ==
    CASE ty \in SliceTypes -> {"Slice"}
      [] OTHER -> {"Concrete"}

meta_type(ty) ==
    CASE ty \in SizedTypes -> {"Concrete"}
      [] ty \in SliceTypes -> {"Slice"}
      [] ty \in Traits -> {"TraitObject"}
      [] OTHER -> {"Concrete", "Slice", "TraitObject"}

\* metatype::Type::meta(t): the second word of the reference to v as a ty
\* in process p, which is the address of a vtable for a trait object and
\* the length for any other unsized type.
meta(p, ty, v) ==
    IF ty \in Traits
    THEN {t[1] : t \in FatPointers(p, ty, v)}
    ELSE {Len(v.data)}

\* Mutant: str is not specialised and falls through to the default impl.
SerializerImplNoStr(ty) ==
    CASE ty \in SizedTypes -> "sized"
      [] ty = "[u16]" -> "slice"
      [] OTHER -> "default"

\* Which impl of SerializerTrait<T> for Serializer<T> applies to T.
SerializerImpl(ty) ==
    CASE ty \in SizedTypes -> "sized"
      [] ty = "str" -> "str"
      [] ty = "[u16]" -> "slice"
      [] OTHER -> "default"

\* Which impl of DeserializerTrait<T> for Deserializer<T> applies to T.
DeserializerImpl(ty) ==
    CASE ty \in SizedTypes -> "sized"
      [] ty = "str" -> "str"
      [] ty = "[u16]" -> "slice"
      [] OTHER -> "default"

\* ------------------------------------------------------------------------
\* State
\* ------------------------------------------------------------------------

VARIABLES
    pc,        \* position of the session
    sproc,     \* process that serializes
    styp,      \* static type T of serialize::<T>
    sval,      \* the value serialized: concrete type and data
    svtable,   \* local `vtable` of the default serialize
    simpl,     \* impl of SerializerTrait that ran
    out,       \* elements written to the open tuple so far
    sevents,   \* calls made on the serializer, in order
    sresult,   \* result of serialize: none, ok, err, panic
    wire,      \* the encoded value in flight
    ncorrupt,  \* number of fields damaged in flight
    dproc,     \* process that deserializes
    dtyp,      \* static type T of deserialize::<T>
    dimpl,     \* impl of DeserializerTrait that ran
    t0,        \* local t0 of visit_seq: the relative vtable
    t1,        \* local t1 of visit_seq: the concrete type id read
    object,    \* vtable address of the local `object` of visit_seq
    cursor,    \* SeqAccess: number of tuple elements consumed so far
    devents,   \* steps of the deserializer, in order
    dresult,   \* result of deserialize; before that, the value to be boxed
    ub,        \* undefined behaviour was invoked
    heap,      \* boxes allocated by the deserialize call and not freed
    rckind,    \* "Rc" or "Arc": the shared-owner wrapper that was created
    strong,    \* the strong count in the allocation of the Rc or Arc
    handles,   \* the live handles of the Rc or Arc
    dropped,   \* how many times the value in the Rc or Arc was dropped
    calls,     \* the calls in progress on the threads of one process
    allocs,    \* the allocations behind shared-owner wrappers of trait objects
    owner      \* the number of handles to each of these allocations

vars == << pc, sproc, styp, sval, svtable, simpl, out, sevents, sresult,
           wire, ncorrupt, dproc, dtyp, dimpl, t0, t1, object, cursor,
           devents, dresult, ub, heap, rckind, strong, handles, dropped,
           calls, allocs, owner >>

svars == << sproc, styp, sval, svtable, simpl, out, sevents, sresult >>

dvars == << dproc, dtyp, dimpl, t0, t1, object, cursor, devents,
            dresult, ub, heap >>

\* The wrapper and the threads, which a session does not touch.
ovars == << rckind, strong, handles, dropped, calls, allocs, owner >>

NoResult == [kind |-> "none", msg |-> "", vtable |-> -1, data |-> <<>>]

Err(m) == [kind |-> "err", msg |-> m, vtable |-> -1, data |-> <<>>]

Panic == [kind |-> "panic", msg |-> "assert_eq", vtable |-> -1, data |-> <<>>]

\* A Box<T>: the vtable address of the fat pointer (-1 for a thin pointer)
\* and the data on the heap.
Ok(vt, data) == [kind |-> "ok", msg |-> "", vtable |-> vt, data |-> data]

Crash == [kind |-> "crash", msg |-> "ub", vtable |-> -1, data |-> <<>>]

\* The kinds of result of a call with undefined behaviour: each says what
\* the call comes to when the code at the address called is run as it
\* stands and the call goes on from there, which is one of the things the
\* build can do.
UbKinds == {"ub_ok", "ub_err", "ub_panic", "ub_crash"}

\* A call that went through a pointer which is not a vtable of T: undefined
\* behaviour, c being what the call comes to when it goes on.
Ub(c) ==
    [c EXCEPT !.kind = CASE @ = "ok" -> "ub_ok"
                         [] @ = "err" -> "ub_err"
                         [] @ = "panic" -> "ub_panic"
                         [] @ = "crash" -> "ub_crash"
                         [] OTHER -> @]

\* The result that a call with undefined behaviour comes to when it goes on.
Then(r) ==
    [r EXCEPT !.kind = CASE @ = "ub_ok" -> "ok"
                         [] @ = "ub_err" -> "err"
                         [] @ = "ub_panic" -> "panic"
                         [] @ = "ub_crash" -> "crash"
                         [] OTHER -> @]

\* ------------------------------------------------------------------------
\* The protocol inside a payload: the Serialize and Deserialize impls of
\* the concrete types, called through erased_serde.  For the wrapper
\* Box<dyn Any> they are the wrapper impls of convenience.rs, which call
\* serialize and deserialize of lib.rs again: an envelope in the payload.
\* ------------------------------------------------------------------------

RECURSIVE EnvelopeSerialize(_, _, _), serialize(_, _, _)
RECURSIVE BoxSerialize(_, _, _), ErasedSerialize(_, _, _)

\* Serializer::<dyn t>::serialize (default impl) of the fat pointer fat on a
\* serializer that does not fail: the tuple of three.
EnvelopeSerialize(p, t, fat) ==
    LET vtable == fat[1]
        c == VtableAt(p, vtable).ctype
    IN  WSeq("tuple", << VtableSerialize(p, t, VtableFrom(p, vtable)),
                         WInt(type_id(c)),
                         ErasedSerialize(p, c, Tail(fat)) >>)

\* pub fn serialize::<ty>(t, serializer) on a serializer that does not
\* fail.  The pointer ptr to a trait object is the vtable address followed
\* by the data, the pointer to any other type is the data.
serialize(p, ty, ptr) ==
    IF SerializerImpl(ty) = "default"
    THEN EnvelopeSerialize(p, ty, ptr)
    ELSE ErasedSerialize(p, ty, ptr)

\* impl Serialize for Box<T>: serialize(&self.0, serializer)
\* Mutant: the wrapper serializes what it points to, as std's Box does.
BoxSerializeLikeStd(p, ty, ptr) ==
    IF SerializerImpl(ty) = "default"
    THEN ErasedSerialize(p, VtableAt(p, ptr[1]).ctype, Tail(ptr))
    ELSE ErasedSerialize(p, ty, ptr)

BoxSerialize(p, ty, ptr) == serialize(p, ty, ptr)

\* erased_serde::serialize of a value of the concrete type c.
ErasedSerialize(p, c, data) ==
    IF c = "Box<dyn Any>"
    THEN BoxSerialize(p, "dyn Any", data)
    ELSE NativeSerialize(c, data)

\* impl Serialize for Rc<T>: serialize(&self.0, serializer)
RcSerialize(p, ty, ptr) == serialize(p, ty, ptr)

\* impl Serialize for Arc<T>: serialize(&self.0, serializer)
\* Mutant: the wrapper serializes what it points to, as std's Arc does.
ArcSerializeLikeStd(p, ty, ptr) ==
    IF SerializerImpl(ty) = "default"
    THEN ErasedSerialize(p, VtableAt(p, ptr[1]).ctype, Tail(ptr))
    ELSE ErasedSerialize(p, ty, ptr)

ArcSerialize(p, ty, ptr) == serialize(p, ty, ptr)

RECURSIVE EnvelopeDeserialize(_, _, _), deserialize(_, _, _)
RECURSIVE BoxDeserialize(_, _, _), ErasedDeserialize(_, _, _)
RECURSIVE EnvelopeThrough(_, _, _)

\* What visit_seq makes of the result r of the payload deserializer, vt
\* being the vtable address the box is fattened with: an error of the
\* payload is a custom error of the codec.
Fatten(r, vt) ==
    CHOOSE f \in { [x EXCEPT !.vtable = IF x.kind \in {"ok", "ub_ok"} THEN vt ELSE @,
                             !.msg = IF x.kind \in {"err", "ub_err"}
                                     THEN "custom" ELSE @] : x \in {r} } : TRUE

\* visit_seq from the assertion on, with the calls made through what lives
\* at the address vt: object.type_id() is compared with the concrete type
\* id read, and deserialize_erased of that concrete type reads the payload.
\* Where nothing callable lives the process crashes.
EnvelopeThrough(p, w, vt) ==
    LET e == VtableAt(p, vt)
    IN  IF e \in {NoVtable, Anchor} THEN Crash
        ELSE IF w.elems[2].n # type_id(e.ctype) THEN Panic
        ELSE IF Len(w.elems) < 3 THEN Err("invalid_length_2")
        ELSE Fatten(ErasedDeserialize(p, e.ctype, w.elems[3]), vt)

\* Deserializer::<dyn t>::deserialize (default impl) with visit_seq, as one
\* function of the input.  The calls through a pointer that is not a vtable
\* of dyn t are undefined behaviour.
EnvelopeDeserialize(p, t, w) ==
    IF w.tag \notin {"tuple", "seq"} THEN Err("invalid_type")
    ELSE IF Len(w.elems) < 1 THEN Err("invalid_length_0")
    ELSE LET r0 == VtableDeserialize(p, t, w.elems[1])
         IN  IF ~r0.ok THEN Err(r0.err)
             ELSE IF Len(w.elems) < 2 THEN Err("invalid_length_1")
             ELSE IF w.elems[2].tag # "int" THEN Err("codec")
             ELSE LET vt == VtableTo(p, r0.off)
                  IN  IF ~ValidVtable(p, t, vt)
                      THEN Ub(EnvelopeThrough(p, w, vt))
                      ELSE EnvelopeThrough(p, w, vt)

\* pub fn deserialize::<ty>(deserializer): the box, with its vtable address
\* when ty is a trait object.
deserialize(p, ty, w) ==
    IF DeserializerImpl(ty) = "default"
    THEN EnvelopeDeserialize(p, ty, w)
    ELSE ErasedDeserialize(p, ty, w)

\* .map(Self): the pointer the wrapper holds, as the data of the wrapper.
MapSelf(r) ==
    CHOOSE m \in { [x EXCEPT !.vtable = -1,
                             !.data = IF x.kind \in {"ok", "ub_ok"} /\ x.vtable # -1
                                      THEN << x.vtable >> \o @ ELSE @] :
                   x \in {r} } : TRUE

\* impl Deserialize for Box<T>: deserialize(deserializer).map(Self)
BoxDeserialize(p, ty, w) == MapSelf(deserialize(p, ty, w))

\* erased_serde::deserialize::<c> of the payload w.
ErasedDeserialize(p, c, w) ==
    IF c = "Box<dyn Any>"
    THEN BoxDeserialize(p, "dyn Any", w)
    ELSE LET r == NativeDeserialize(c, w)
         IN  IF r.ok THEN Ok(-1, r.data) ELSE Err("codec")

\* impl Deserialize for Rc<T>: deserialize(deserializer).map(Self)
RcDeserialize(p, ty, w) == MapSelf(deserialize(p, ty, w))

\* impl Deserialize for Arc<T>: deserialize(deserializer).map(Self)
ArcDeserialize(p, ty, w) == MapSelf(deserialize(p, ty, w))

\* What the build can make of undefined behaviour in a payload
\* deserializer, c being what the call comes to when the code at the
\* address called is run: a crash, a panic, an error, or a box.  The box
\* holds the value which that code deserialized (the deserialize_erased of
\* a vtable of another trait deserializes its concrete type from the
\* payload), or anything else.
UbOutcomes(c, vt) ==
    { Crash, Panic, Err("custom") }
    \cup { Ok(vt, g) : g \in { <<>>, <<0>> } }
    \cup (IF c.kind = "ok" THEN { Ok(vt, c.data) } ELSE {})

\* What the caller of a payload deserializer sees of its result r, vt being
\* the vtable address the caller fattens the box with.
\* Mutant: an error of the payload deserializer is unwrapped.
OutcomesOfUnwrap(r, vt) ==
    CASE r.kind = "ok" -> { Ok(vt, r.data) }
      [] r.kind = "err" -> { Panic }
      [] r.kind = "panic" -> { Panic }
      [] OTHER -> UbOutcomes(Then(r), vt)

OutcomesOf(r, vt) ==
    CASE r.kind = "ok" -> { Ok(vt, r.data) }
      [] r.kind = "err" -> { Err("custom") }
      [] r.kind = "panic" -> { Panic }
      [] OTHER -> UbOutcomes(Then(r), vt)

Init ==
    /\ pc = "idle"
    /\ sproc = "A"
    /\ styp = "u8"
    /\ sval = [ctype |-> "u8", data |-> <<78>>]
    /\ svtable = -1
    /\ simpl = "none"
    /\ out = <<>>
    /\ sevents = <<>>
    /\ sresult = "none"
    /\ wire = WInt(0)
    /\ ncorrupt = 0
    /\ dproc = "A"
    /\ dtyp = "u8"
    /\ dimpl = "none"
    /\ t0 = -1
    /\ t1 = -1
    /\ object = -1
    /\ cursor = 0
    /\ devents = <<>>
    /\ dresult = NoResult
    /\ ub = FALSE
    /\ heap = 0
    /\ rckind = "none"
    /\ strong = 0
    /\ handles = <<>>
    /\ dropped = 0
    /\ calls = <<>>
    /\ allocs = <<>>
    /\ owner = <<>>

\* ------------------------------------------------------------------------
\* serialize (lib.rs): one action per impl of SerializerTrait, and one per
\* codec call of the default impl
\* ------------------------------------------------------------------------

\* The values a reference of static type ty can refer to in process p.
ValueChoices(p, ty) ==
    UNION {{[ctype |-> c, data |-> d] : d \in ValuesIn(p, c)} :
           c \in ConcreteTypesOf(ty)}

SerFail(p, ty, v, impl) ==
    /\ pc' = "failed"
    /\ sresult' = "err"
    /\ sproc' = p /\ styp' = ty /\ sval' = v /\ simpl' = impl
    /\ UNCHANGED << svtable, out, sevents, wire >>

SerNative(p, ty, v, impl, sinkOk) ==
    /\ pc = "idle"
    /\ SerializerImpl(ty) = impl
    /\ IF sinkOk
       THEN /\ pc' = "sent"
            /\ sresult' = "ok"
            /\ wire' = ErasedSerialize(p, v.ctype, v.data)
            /\ sproc' = p /\ styp' = ty /\ sval' = v /\ simpl' = impl
            /\ UNCHANGED << svtable, out, sevents >>
       ELSE SerFail(p, ty, v, impl)
    /\ UNCHANGED << ovars, ncorrupt, dvars >>

\* impl<T: Serialize> SerializerTrait<T> for Serializer<T>
SerializeSized ==
    \E p \in Procs, ty \in StaticTypes, sinkOk \in BOOLEAN :
        \E v \in ValueChoices(p, ty) : SerNative(p, ty, v, "sized", sinkOk)

\* impl SerializerTrait<str> for Serializer<str>
SerializeStr ==
    \E p \in Procs, ty \in StaticTypes, sinkOk \in BOOLEAN :
        \E v \in ValueChoices(p, ty) : SerNative(p, ty, v, "str", sinkOk)

\* impl<T> SerializerTrait<[T]> for Serializer<[T]>
SerializeSlice ==
    \E p \in Procs, ty \in StaticTypes, sinkOk \in BOOLEAN :
        \E v \in ValueChoices(p, ty) : SerNative(p, ty, v, "slice", sinkOk)

\* The default impl up to and including serializer.serialize_tuple(3), for
\* a static type of types: it panics unless meta_type says that the type
\* is a trait object, and takes the second word of the reference for the
\* vtable when it says so.
SerializeDefaultOf(types) ==
    \E p \in Procs, ty \in types, sinkOk \in BOOLEAN :
      \E v \in ValueChoices(p, ty), mt \in meta_type(ty) :
        /\ pc = "idle"
        /\ SerializerImpl(ty) = "default"
        /\ sproc' = p /\ styp' = ty /\ sval' = v /\ simpl' = "default"
        /\ IF mt # "TraitObject"
           THEN /\ pc' = "failed"
                /\ sresult' = "panic"
                /\ UNCHANGED << svtable, out, sevents >>
           ELSE /\ \E w \in meta(p, ty, v) : svtable' = w
                /\ IF sinkOk
                   THEN /\ pc' = "ser_vtable"
                        /\ sevents' = << "serialize_tuple" >>
                        /\ UNCHANGED << out, sresult >>
                   ELSE /\ pc' = "failed"
                        /\ sresult' = "err"
                        /\ UNCHANGED << out, sevents >>
        /\ UNCHANGED << ovars, wire, ncorrupt, dvars >>

\* The default impl for the static types of the program.
SerializeDefault == SerializeDefaultOf(StaticTypes)

\* The default impl for an unsized type that is none of str, a slice and a
\* trait object.
SerializeUnsized == SerializeDefaultOf(OtherUnsized)

\* One call of the codec by the default serializer: the element is written
\* and the next call follows, or the error of the codec is returned with ?.
\* Mutant: after an error of the codec the tuple is started again.
SerStepRetry(from, to, ev, elem, sinkOk) ==
    /\ pc = from
    /\ IF sinkOk
       THEN /\ pc' = to
            /\ out' = Append(out, elem)
            /\ sevents' = Append(sevents, ev)
            /\ UNCHANGED sresult
       ELSE /\ pc' = "ser_vtable"
            /\ out' = <<>>
            /\ sevents' = << "serialize_tuple" >>
            /\ UNCHANGED sresult
    /\ UNCHANGED << ovars, sproc, styp, sval, svtable, simpl, wire, ncorrupt, dvars >>

\* Mutant: after an error of the codec the tuple is closed before the error
\* is returned.
SerStepCloses(from, to, ev, elem, sinkOk) ==
    /\ pc = from
    /\ IF sinkOk
       THEN /\ pc' = to
            /\ out' = Append(out, elem)
            /\ sevents' = Append(sevents, ev)
            /\ UNCHANGED sresult
       ELSE /\ pc' = "failed"
            /\ sresult' = "err"
            /\ sevents' = Append(sevents, "end")
            /\ UNCHANGED out
    /\ UNCHANGED << ovars, sproc, styp, sval, svtable, simpl, wire, ncorrupt, dvars >>

SerStep(from, to, ev, elem, sinkOk) ==
    /\ pc = from
    /\ IF sinkOk
       THEN /\ pc' = to
            /\ out' = Append(out, elem)
            /\ sevents' = Append(sevents, ev)
            /\ UNCHANGED sresult
       ELSE /\ pc' = "failed"
            /\ sresult' = "err"
            /\ UNCHANGED << out, sevents >>
    /\ UNCHANGED << ovars, sproc, styp, sval, svtable, simpl, wire, ncorrupt, dvars >>

\* tup.serialize_element::<Vtable<T>>(&Vtable::<T>::from(vtable))?
SerializeElementVtable ==
    \E sinkOk \in BOOLEAN :
        SerStep("ser_vtable", "ser_type_id", "element_vtable",
                VtableSerialize(sproc, styp, VtableFrom(sproc, svtable)), sinkOk)

\* Mutant: the type id of the static type T is written, not that of the
\* concrete type behind the reference.
SerializeElementTypeIdStatic ==
    \E sinkOk \in BOOLEAN :
        SerStep("ser_type_id", "ser_erased", "element_type_id",
                WInt(type_id(styp)), sinkOk)

\* tup.serialize_element::<u64>(&<T as Sealed>::type_id(&t))?  The call is
\* dispatched through the vtable of the value: the id of the concrete type.
SerializeElementTypeId ==
    \E sinkOk \in BOOLEAN :
        SerStep("ser_type_id", "ser_erased", "element_type_id",
                WInt(type_id(sval.ctype)), sinkOk)

\* tup.serialize_element::<SerializeErased<T>>(&SerializeErased(t))?
SerializeElementErased ==
    \E sinkOk \in BOOLEAN :
        SerStep("ser_erased", "ser_end", "element_erased",
                ErasedSerialize(sproc, sval.ctype, sval.data), sinkOk)

\* tup.end()
SerializeEnd ==
    \E sinkOk \in BOOLEAN :
        /\ pc = "ser_end"
        /\ IF sinkOk
           THEN /\ pc' = "sent"
                /\ sresult' = "ok"
                /\ sevents' = Append(sevents, "end")
                /\ wire' = WSeq("tuple", out)
           ELSE /\ pc' = "failed"
                /\ sresult' = "err"
                /\ UNCHANGED << sevents, wire >>
        /\ UNCHANGED << ovars, sproc, styp, sval, svtable, simpl, out, ncorrupt, dvars >>

\* ------------------------------------------------------------------------
\* The wire: damage in flight
\* ------------------------------------------------------------------------

ReplaceElem(w, i, e) == [w EXCEPT !.elems = [w.elems EXCEPT ![i] = e]]

\* The input becomes w; cost is what the replacement takes of the MaxCorrupt
\* replacements an input can have.
DamageAt(w, cost) ==
    /\ pc = "sent"
    /\ ncorrupt + cost <= MaxCorrupt
    /\ w # wire
    /\ wire' = w
    /\ ncorrupt' = ncorrupt + cost
    /\ UNCHANGED << ovars, pc, svars, dvars >>

Damage(w) == DamageAt(w, 1)

IsEnvelope(w) ==
    /\ w.tag = "tuple"
    /\ Len(w.elems) >= 1
    /\ w.elems[1].tag = "tuple"
    /\ Len(w.elems[1].elems) = 3

\* One of the three parts of the serialized Vtable is replaced.
CorruptBuildId ==
    \E b \in BuildIds :
        /\ IsEnvelope(wire)
        /\ Damage(ReplaceElem(wire, 1, ReplaceElem(wire.elems[1], 1, WInt(b))))

CorruptTraitId ==
    \E t \in Traits :
        /\ IsEnvelope(wire)
        /\ Damage(ReplaceElem(wire, 1,
                              ReplaceElem(wire.elems[1], 2, WInt(type_id(t)))))

\* A replaced offset is the only replacement in an input.
CorruptOffset ==
    \E o \in 0..(WordMod - 1) :
        /\ IsEnvelope(wire)
        /\ DamageAt(ReplaceElem(wire, 1, ReplaceElem(wire.elems[1], 3, WInt(o))),
                    MaxCorrupt)

\* The concrete type id is replaced.
CorruptTypeId ==
    \E c \in SizedTypes :
        /\ wire.tag = "tuple"
        /\ Len(wire.elems) >= 2
        /\ Damage(ReplaceElem(wire, 2, WInt(type_id(c))))

\* The payload is replaced.
CorruptPayload ==
    \E w \in {WInt(300), WSeq("str", << >>)} :
        /\ wire.tag = "tuple"
        /\ Len(wire.elems) >= 3
        /\ Damage(ReplaceElem(wire, 3, w))

\* The tuple ends early, whatever was replaced in it before; nothing is
\* replaced after that.
Truncate ==
    \E k \in 0..2 :
        /\ pc = "sent"
        /\ ncorrupt <= MaxCorrupt
        /\ wire.tag = "tuple"
        /\ Len(wire.elems) > k
        /\ wire' = [wire EXCEPT !.elems = SubSeq(wire.elems, 1, k), !.n = k]
        /\ ncorrupt' = MaxCorrupt + 1
        /\ UNCHANGED << ovars, pc, svars, dvars >>

\* The envelope w with one of its parts replaced, or ending early.
Damaged(w) ==
    { ReplaceElem(w, 1, ReplaceElem(w.elems[1], 3, WInt(o))) : o \in 0..(WordMod - 1) }
    \cup { ReplaceElem(w, 2, WInt(type_id(c))) : c \in SizedTypes }
    \cup { ReplaceElem(w, 3, x) : x \in {WInt(300), WSeq("str", << >>)} }
    \cup { [w EXCEPT !.elems = SubSeq(w.elems, 1, k), !.n = k] : k \in 0..2 }

\* The payload is an envelope, and one of its parts is replaced or it ends
\* early; this is the only replacement in an input.
CorruptInner ==
    /\ IsEnvelope(wire)
    /\ Len(wire.elems) = 3
    /\ IsEnvelope(wire.elems[3])
    /\ Len(wire.elems[3].elems) = 3
    /\ \E d \in Damaged(wire.elems[3]) :
          DamageAt(ReplaceElem(wire, 3, d), MaxCorrupt)

\* ------------------------------------------------------------------------
\* deserialize (lib.rs): one action per impl of DeserializerTrait, and one
\* per step of Visitor::visit_seq
\* ------------------------------------------------------------------------

\* The boxes that a value of the concrete type c with this data owns: a
\* Box<dyn Any> is a box, around a value that can be one again.  The
\* Deserialize impl of the wrapper comes to Box::new as well, once for each.
RECURSIVE BoxesIn(_, _, _)
BoxesIn(p, c, data) ==
    IF c # "Box<dyn Any>" \/ data = <<>> THEN 0
    ELSE IF VtableAt(p, data[1]) = NoVtable THEN 1
    ELSE 1 + BoxesIn(p, VtableAt(p, data[1]).ctype, Tail(data))

\* The boxes that the Deserialize impl of the concrete type c has allocated
\* and not freed when it returns r: those that the value owns, made by the
\* calls of deserialize nested in this one.  It returns the value itself by
\* value; when it returns no value, what it had made is dropped.
\* Mutant: a slot for the value is allocated first and stays allocated when
\* the value fails to deserialize.
BoxesLeftOnErr(p, c, r) ==
    CASE r.kind = "ok" -> BoxesIn(p, c, r.data)
      [] r.kind = "err" -> 1
      [] OTHER -> 0

BoxesLeft(p, c, r) == IF r.kind = "ok" THEN BoxesIn(p, c, r.data) ELSE 0

\* <Box<T>>::deserialize(deserializer): the Deserialize impl of the type
\* itself, and a box for the value when there is one.  The types of StaticTypes with this impl have Deserialize
\* impls that read one value of the codec and call nothing of this crate.
\* Mutant: an empty string or sequence is refused.
DeNativeNonEmpty(p, ty, impl) ==
    /\ pc = "sent"
    /\ DeserializerImpl(ty) = impl
    /\ pc' = "done"
    /\ dproc' = p /\ dtyp' = ty /\ dimpl' = impl
    /\ ty \in StaticTypes
    /\ LET r == ErasedDeserialize(p, ty, wire)
       IN  dresult' = IF r.kind = "ok" /\ r.data = <<>> THEN Err("codec") ELSE r
    /\ heap' = BoxesLeft(p, ty, dresult') + (IF dresult'.kind = "ok" THEN 1 ELSE 0)
    /\ UNCHANGED << ovars, svars, wire, ncorrupt, t0, t1, object, cursor, devents, ub >>

DeNative(p, ty, impl) ==
    /\ pc = "sent"
    /\ DeserializerImpl(ty) = impl
    /\ pc' = "done"
    /\ dproc' = p /\ dtyp' = ty /\ dimpl' = impl
    /\ ty \in StaticTypes
    /\ dresult' = ErasedDeserialize(p, ty, wire)
    /\ heap' = BoxesLeft(p, ty, dresult') + (IF dresult'.kind = "ok" THEN 1 ELSE 0)
    /\ UNCHANGED << ovars, svars, wire, ncorrupt, t0, t1, object, cursor, devents, ub >>

\* impl<T: Deserialize> DeserializerTrait<T> for Deserializer<T>
DeserializeSized == \E p \in Procs, ty \in StaticTypes : DeNative(p, ty, "sized")

\* impl DeserializerTrait<str> for Deserializer<str>
DeserializeStr == \E p \in Procs, ty \in StaticTypes : DeNative(p, ty, "str")

\* impl<T> DeserializerTrait<[T]> for Deserializer<[T]>
DeserializeSlice == \E p \in Procs, ty \in StaticTypes : DeNative(p, ty, "slice")

\* The default impl: deserializer.deserialize_tuple(3, Visitor), which calls
\* visit_seq when the input is a sequence.
DeserializeDefault ==
    \E p \in Procs, ty \in StaticTypes :
        /\ pc = "sent"
        /\ DeserializerImpl(ty) = "default"
        /\ dproc' = p /\ dtyp' = ty /\ dimpl' = "default"
        /\ IF wire.tag \in {"tuple", "seq"}
           THEN /\ pc' = "visit_t0"
                /\ devents' = << "deserialize_tuple" >>
                /\ UNCHANGED dresult
           ELSE /\ pc' = "done"
                /\ dresult' = Err("invalid_type")
                /\ UNCHANGED devents
        /\ UNCHANGED << ovars, heap, svars, wire, ncorrupt, t0, t1, object, cursor, ub >>

DeFinish(r) ==
    /\ pc' = "done"
    /\ dresult' = r

\* seq.next_element(): the element under the cursor, if any.
HasNext == cursor < Len(wire.elems)

NextElem == wire.elems[cursor + 1]

\* let t0: Vtable<T> = match seq.next_element()? { ... invalid_length(0) }
VisitT0 ==
    /\ pc = "visit_t0"
    /\ IF ~HasNext
       THEN /\ DeFinish(Err("invalid_length_0"))
            /\ UNCHANGED << t0, cursor, devents >>
       ELSE LET r == VtableDeserialize(dproc, dtyp, NextElem)
            IN  /\ cursor' = cursor + 1
                /\ IF r.ok
                   THEN /\ pc' = "visit_t1"
                        /\ t0' = r.off
                        /\ devents' = devents \o << "next_vtable", "validated" >>
                        /\ UNCHANGED dresult
                   ELSE /\ DeFinish(Err(r.err))
                        /\ devents' = Append(devents, "next_vtable")
                        /\ UNCHANGED t0
    /\ UNCHANGED << ovars, heap, svars, wire, ncorrupt, dproc, dtyp, dimpl, t1, object, ub >>

\* Mutant: the concrete type id is not read from the input at all; the
\* check is made to pass.
VisitT1NotRead ==
    /\ pc = "visit_t1"
    /\ pc' = "visit_check"
    /\ t1' = IF ValidVtable(dproc, dtyp, VtableTo(dproc, t0))
             THEN type_id(VtableAt(dproc, VtableTo(dproc, t0)).ctype)
             ELSE 0
    /\ UNCHANGED << ovars, heap, svars, wire, ncorrupt, dproc, dtyp, dimpl, t0, object,
                    cursor, devents, dresult, ub >>

\* let t1: u64 = match seq.next_element()? { ... invalid_length(1) }
VisitT1 ==
    /\ pc = "visit_t1"
    /\ IF ~HasNext
       THEN /\ DeFinish(Err("invalid_length_1"))
            /\ UNCHANGED << t1, cursor, devents >>
       ELSE /\ cursor' = cursor + 1
            /\ devents' = Append(devents, "next_type_id")
            /\ IF NextElem.tag = "int"
               THEN /\ pc' = "visit_check"
                    /\ t1' = NextElem.n
                    /\ UNCHANGED dresult
               ELSE /\ DeFinish(Err("codec"))
                    /\ UNCHANGED t1
    /\ UNCHANGED << ovars, heap, svars, wire, ncorrupt, dproc, dtyp, dimpl, t0, object, ub >>

\* Mutant: a differing concrete type id is reported as an ordinary error.
VisitCheckErr ==
    /\ pc = "visit_check"
    /\ LET vt == VtableTo(dproc, t0)
           e == VtableAt(dproc, vt)
       IN  /\ object' = vt
           /\ IF ~ValidVtable(dproc, dtyp, vt)
              THEN /\ ub' = TRUE
                   /\ \/ /\ DeFinish(Crash)
                         /\ devents' = devents \o << "to", "type_id" >>
                      \/ /\ DeFinish(Panic)
                         /\ devents' = devents \o << "to", "type_id", "assert_eq" >>
                      \/ /\ pc' = "visit_t2"
                         /\ devents' = devents \o << "to", "type_id", "assert_eq" >>
                         /\ UNCHANGED dresult
              ELSE /\ UNCHANGED ub
                   /\ devents' = devents \o << "to", "type_id", "assert_eq" >>
                   /\ IF t1 # type_id(e.ctype)
                      THEN DeFinish(Err("custom"))
                      ELSE /\ pc' = "visit_t2"
                           /\ UNCHANGED dresult
    /\ UNCHANGED << ovars, heap, svars, wire, ncorrupt, dproc, dtyp, dimpl, t0, t1, cursor >>

\* Mutant: the concrete type id is not compared.
VisitCheckNoAssert ==
    /\ pc = "visit_check"
    /\ LET vt == VtableTo(dproc, t0)
       IN  /\ object' = vt
           /\ devents' = devents \o << "to" >>
           /\ ub' = (ub \/ ~ValidVtable(dproc, dtyp, vt))
           /\ pc' = "visit_t2"
           /\ UNCHANGED dresult
    /\ UNCHANGED << ovars, heap, svars, wire, ncorrupt, dproc, dtyp, dimpl, t0, t1, cursor >>

\* let meta = TraitObject { vtable: t0.to() }; let object = dangling(meta);
\* assert_eq!(t1, object.type_id(), ...).  object.type_id() is a call through
\* the vtable just resolved.  When no vtable of T lives there the call is
\* undefined behaviour: the process crashes, or the call returns some number
\* and the assertion fails or passes.
\* Mutant: the payload is read before the concrete type ids are compared.
VisitCheckAfterPayload ==
    /\ pc = "visit_check"
    /\ LET vt == VtableTo(dproc, t0)
           e == VtableAt(dproc, vt)
       IN  /\ object' = vt
           /\ IF ~ValidVtable(dproc, dtyp, vt)
              THEN /\ ub' = TRUE
                   /\ UNCHANGED cursor
                   /\ \/ /\ DeFinish(Crash)
                         /\ devents' = devents \o << "to", "type_id" >>
                      \/ /\ DeFinish(Panic)
                         /\ devents' = devents \o << "to", "type_id", "assert_eq" >>
                      \/ /\ pc' = "visit_t2"
                         /\ devents' = devents \o << "to", "type_id", "assert_eq" >>
                         /\ UNCHANGED dresult
              ELSE /\ UNCHANGED ub
                   /\ IF t1 # type_id(e.ctype)
                      THEN /\ DeFinish(Panic)
                           /\ cursor' = IF HasNext THEN cursor + 1 ELSE cursor
                           /\ devents' = devents \o << "to", "next_erased",
                                  "deserialize_erased", "type_id", "assert_eq" >>
                      ELSE /\ pc' = "visit_t2"
                           /\ devents' = devents \o << "to", "type_id", "assert_eq" >>
                           /\ UNCHANGED << dresult, cursor >>
    /\ UNCHANGED << ovars, heap, svars, wire, ncorrupt, dproc, dtyp, dimpl, t0, t1 >>

VisitCheck ==
    /\ pc = "visit_check"
    /\ LET vt == VtableTo(dproc, t0)
           e == VtableAt(dproc, vt)
       IN  /\ object' = vt
           /\ IF ~ValidVtable(dproc, dtyp, vt)
              THEN /\ ub' = TRUE
                   /\ \/ /\ DeFinish(Crash)
                         /\ devents' = devents \o << "to", "type_id" >>
                      \/ /\ DeFinish(Panic)
                         /\ devents' = devents \o << "to", "type_id", "assert_eq" >>
                      \/ /\ pc' = "visit_t2"
                         /\ devents' = devents \o << "to", "type_id", "assert_eq" >>
                         /\ UNCHANGED dresult
              ELSE /\ UNCHANGED ub
                   /\ devents' = devents \o << "to", "type_id", "assert_eq" >>
                   /\ IF t1 # type_id(e.ctype)
                      THEN DeFinish(Panic)
                      ELSE /\ pc' = "visit_t2"
                           /\ UNCHANGED dresult
    /\ UNCHANGED << ovars, heap, svars, wire, ncorrupt, dproc, dtyp, dimpl, t0, t1, cursor >>

\* The calls that read the payload: next_element_seed calls
\* DeserializeErased::deserialize, which calls deserialize_erased through
\* the vtable, and that calls erased_serde::deserialize of the concrete
\* type.
\* Mutant: a box is allocated before the payload is read.
ErasedEventsPreallocated == << "box_new", "next_erased", "deserialize_erased" >>

ErasedEvents == << "next_erased", "deserialize_erased" >>

\* The concrete value that erased_serde::deserialize::<Self> returned, by
\* value: no box holds it yet.
Value(data) == [kind |-> "value", msg |-> "", vtable |-> -1, data |-> data]

\* seq.next_element_seed(DeserializeErased(object)), up to the return of
\* erased_serde::deserialize::<Self> in deserialize_erased, which is called
\* through the vtable of object: the payload is read as the concrete type.
\* No payload is invalid_length(2); an error of the payload is returned as
\* a custom error of the codec; a value goes on to be boxed.
\* Through a pointer that is not a vtable of T the call is undefined
\* behaviour: a crash, a panic, an error, or a value, which is the one that
\* the code at that address deserialized when that is a deserialize_erased.
\* Mutant: a missing payload panics.
VisitT2MissingPanics ==
    /\ pc = "visit_t2"
    /\ IF ~HasNext
       THEN /\ DeFinish(Panic)
            /\ UNCHANGED << cursor, devents, ub, heap >>
       ELSE /\ cursor' = cursor + 1
            /\ devents' = devents \o ErasedEvents
            /\ \E r \in { IF VtableAt(dproc, object) \in {NoVtable, Anchor}
                           THEN Crash
                           ELSE ErasedDeserialize(dproc,
                                    VtableAt(dproc, object).ctype, NextElem) } :
                  /\ \E o \in (IF ~ValidVtable(dproc, dtyp, object)
                               THEN UbOutcomes(Then(r), object)
                               ELSE OutcomesOf(r, object)) :
                        /\ IF o.kind = "ok"
                           THEN /\ pc' = "visit_box"
                                /\ dresult' = Value(o.data)
                           ELSE DeFinish(o)
                        /\ heap' = heap + BoxesLeft(dproc,
                                        VtableAt(dproc, object).ctype, o)
                  /\ ub' = (ub \/ r.kind \in UbKinds)
    /\ UNCHANGED << ovars, svars, wire, ncorrupt, dproc, dtyp, dimpl, t0, t1, object >>

VisitT2 ==
    /\ pc = "visit_t2"
    /\ IF ~HasNext
       THEN /\ DeFinish(Err("invalid_length_2"))
            /\ UNCHANGED << cursor, devents, ub, heap >>
       ELSE /\ cursor' = cursor + 1
            /\ devents' = devents \o ErasedEvents
            /\ \E r \in { IF VtableAt(dproc, object) \in {NoVtable, Anchor}
                           THEN Crash
                           ELSE ErasedDeserialize(dproc,
                                    VtableAt(dproc, object).ctype, NextElem) } :
                  /\ \E o \in (IF ~ValidVtable(dproc, dtyp, object)
                               THEN UbOutcomes(Then(r), object)
                               ELSE OutcomesOf(r, object)) :
                        /\ IF o.kind = "ok"
                           THEN /\ pc' = "visit_box"
                                /\ dresult' = Value(o.data)
                           ELSE DeFinish(o)
                        /\ heap' = heap + BoxesLeft(dproc,
                                        VtableAt(dproc, object).ctype, o)
                  /\ ub' = (ub \/ r.kind \in UbKinds)
    /\ UNCHANGED << ovars, svars, wire, ncorrupt, dproc, dtyp, dimpl, t0, t1, object >>

\* .map(|x| Box::into_raw(Box::new(x))) in Sealed::deserialize_erased, then
\* .map(|raw| Box::from_raw(fatten(raw, meta))) in deserialize_erased, then
\* Ok(t2): the value is moved into a new box, the pointer to the box gets
\* the vtable of object, and visit_seq returns the box.
VisitBox ==
    /\ pc = "visit_box"
    /\ heap' = heap + 1
    /\ devents' = devents \o << "box_new", "fatten" >>
    /\ DeFinish(Ok(object, dresult.data))
    /\ UNCHANGED << ovars, svars, wire, ncorrupt, dproc, dtyp, dimpl, t0, t1, object,
                    cursor, ub >>

\* The session is over; the next one starts from the initial state.
Reset ==
    /\ pc \in {"failed", "done"}
    /\ pc' = "idle"
    /\ sproc' = "A"
    /\ styp' = "u8"
    /\ sval' = [ctype |-> "u8", data |-> <<78>>]
    /\ svtable' = -1
    /\ simpl' = "none"
    /\ out' = <<>>
    /\ sevents' = <<>>
    /\ sresult' = "none"
    /\ wire' = WInt(0)
    /\ ncorrupt' = 0
    /\ dproc' = "A"
    /\ dtyp' = "u8"
    /\ dimpl' = "none"
    /\ t0' = -1
    /\ t1' = -1
    /\ object' = -1
    /\ cursor' = 0
    /\ devents' = <<>>
    /\ dresult' = NoResult
    /\ ub' = FALSE
    /\ heap' = 0
    /\ UNCHANGED ovars

Next ==
    \/ SerializeSized
    \/ SerializeStr
    \/ SerializeSlice
    \/ SerializeDefault
    \/ SerializeElementVtable
    \/ SerializeElementTypeId
    \/ SerializeElementErased
    \/ SerializeEnd
    \/ CorruptBuildId
    \/ CorruptTraitId
    \/ CorruptOffset
    \/ CorruptTypeId
    \/ CorruptPayload
    \/ Truncate
    \/ CorruptInner
    \/ DeserializeSized
    \/ DeserializeStr
    \/ DeserializeSlice
    \/ DeserializeDefault
    \/ VisitT0
    \/ VisitT1
    \/ VisitCheck
    \/ VisitT2
    \/ VisitBox
    \/ Reset

Spec == Init /\ [][Next]_vars

\* The sessions of serialize alone, with the static types of every kind.
MetaNext ==
    \/ SerializeSized
    \/ SerializeStr
    \/ SerializeSlice
    \/ SerializeDefault
    \/ SerializeUnsized
    \/ SerializeElementVtable
    \/ SerializeElementTypeId
    \/ SerializeElementErased
    \/ SerializeEnd
    \/ Reset

SpecMeta == Init /\ [][MetaNext]_vars

\* ------------------------------------------------------------------------
\* relative::Vtable on its own: any address is encoded in one process and
\* decoded in a process of the same build
\* ------------------------------------------------------------------------

RelInit ==
    /\ pc = "rel"
    /\ sproc \in Procs
    /\ svtable \in 0..(WordMod - 1)
    /\ styp = "u8"
    /\ sval = [ctype |-> "u8", data |-> <<78>>]
    /\ simpl = "none"
    /\ out = <<>>
    /\ sevents = <<>>
    /\ sresult = "none"
    /\ wire = WInt(0)
    /\ ncorrupt = 0
    /\ dproc = "A"
    /\ dtyp = "u8"
    /\ dimpl = "none"
    /\ t0 = -1
    /\ t1 = -1
    /\ object = -1
    /\ cursor = 0
    /\ devents = <<>>
    /\ dresult = NoResult
    /\ ub = FALSE
    /\ heap = 0
    /\ rckind = "none"
    /\ strong = 0
    /\ handles = <<>>
    /\ dropped = 0
    /\ calls = <<>>
    /\ allocs = <<>>
    /\ owner = <<>>

\* Vtable::<T>::from(vtable)
RelFrom ==
    /\ pc = "rel"
    /\ pc' = "rel_from"
    /\ t0' = VtableFrom(sproc, svtable)
    /\ UNCHANGED << ovars, heap, svars, wire, ncorrupt, dproc, dtyp, dimpl, t1, object,
                    cursor, devents, dresult, ub >>

\* t0.to() in a process of the same build
RelTo ==
    /\ pc = "rel_from"
    /\ \E p \in Procs :
          /\ build_id(p) = build_id(sproc)
          /\ dproc' = p
          /\ object' = VtableTo(p, t0)
    /\ pc' = "rel_to"
    /\ UNCHANGED << ovars, heap, svars, wire, ncorrupt, dtyp, dimpl, t0, t1, cursor,
                    devents, dresult, ub >>

RelNext == RelFrom \/ RelTo

SpecRel == RelInit /\ [][RelNext]_vars

\* ------------------------------------------------------------------------
\* The shared-owner wrappers Rc<T> and Arc<T> (convenience.rs): one value is
\* put in a wrapper, and handles are cloned, converted and dropped
\* ------------------------------------------------------------------------

RcInit ==
    /\ pc = "rc"
    /\ sproc = "A"
    /\ styp = "u8"
    /\ sval = [ctype |-> "u8", data |-> <<78>>]
    /\ svtable = -1
    /\ simpl = "none"
    /\ out = <<>>
    /\ sevents = <<>>
    /\ sresult = "none"
    /\ wire = WInt(0)
    /\ ncorrupt = 0
    /\ dproc = "A"
    /\ dtyp = "u8"
    /\ dimpl = "none"
    /\ t0 = -1
    /\ t1 = -1
    /\ object = -1
    /\ cursor = 0
    /\ devents = <<>>
    /\ dresult = NoResult
    /\ ub = FALSE
    /\ heap = 0
    /\ rckind = "none"
    /\ strong = 0
    /\ handles = <<>>
    /\ dropped = 0
    /\ calls = <<>>
    /\ allocs = <<>>
    /\ owner = <<>>

\* The handles h with the handle i added, or changed, to be of kind k: a
\* wrapper of this crate or the pointer of std it wraps.
WithHandle(h, i, k) ==
    [j \in DOMAIN h \cup {i} |-> IF j = i THEN k ELSE h[j]]

\* The handles h without the handle i.
WithoutHandle(h, i) == [j \in DOMAIN h \ {i} |-> h[j]]

\* Rc::new(t), Arc::new(t): Self(rc::Rc::new(t)), a new allocation with a
\* strong count of one.
RcNew ==
    /\ rckind = "none"
    /\ \E k \in {"Rc", "Arc"} : rckind' = k
    /\ strong' = 1
    /\ handles' = WithHandle(<<>>, 1, "wrapper")
    /\ UNCHANGED << pc, svars, wire, ncorrupt, dvars, dropped, calls, allocs, owner >>

\* impl Clone for Rc<T>, Arc<T>: Self(self.0.clone()), which adds one to
\* the strong count and gives a handle to the same allocation.
\* Mutant: the clone is a handle that is not counted.
RcCloneNotCounted ==
    /\ rckind # "none"
    /\ \E i \in DOMAIN handles, n \in (1..MaxHandles) \ DOMAIN handles :
          /\ handles[i] = "wrapper"
          /\ handles' = WithHandle(handles, n, "wrapper")
    /\ UNCHANGED << pc, svars, wire, ncorrupt, dvars, rckind, strong, dropped, calls, allocs, owner >>

RcClone ==
    /\ rckind # "none"
    /\ \E i \in DOMAIN handles, n \in (1..MaxHandles) \ DOMAIN handles :
          /\ handles[i] = "wrapper"
          /\ handles' = WithHandle(handles, n, "wrapper")
    /\ strong' = strong + 1
    /\ UNCHANGED << pc, svars, wire, ncorrupt, dvars, rckind, dropped, calls, allocs, owner >>

\* impl Into<rc::Rc<T>> for Rc<T>: self.0, the handle without the wrapper.
RcInto ==
    /\ \E i \in DOMAIN handles :
          /\ handles[i] = "wrapper"
          /\ handles' = WithHandle(handles, i, "std")
    /\ UNCHANGED << pc, svars, wire, ncorrupt, dvars, rckind, strong, dropped, calls, allocs, owner >>

\* impl From<rc::Rc<T>> for Rc<T>: Self(t), the handle in a wrapper.
RcFrom ==
    /\ \E i \in DOMAIN handles :
          /\ handles[i] = "std"
          /\ handles' = WithHandle(handles, i, "wrapper")
    /\ UNCHANGED << pc, svars, wire, ncorrupt, dvars, rckind, strong, dropped, calls, allocs, owner >>

\* A handle goes out of scope: the wrapper has no Drop impl of its own, its
\* field is dropped, which takes one from the strong count and drops the
\* value when the count has reached zero.
RcDrop ==
    /\ \E i \in DOMAIN handles : handles' = WithoutHandle(handles, i)
    /\ strong' = strong - 1
    /\ dropped' = IF strong' = 0 THEN dropped + 1 ELSE dropped
    /\ UNCHANGED << pc, svars, wire, ncorrupt, dvars, rckind, calls, allocs, owner >>

RcNext == RcNew \/ RcClone \/ RcInto \/ RcFrom \/ RcDrop

SpecRc == RcInit /\ [][RcNext]_vars

\* ------------------------------------------------------------------------
\* Threads of one process, each in a call of serialize or deserialize of its
\* own: the steps of the default impls, on the locals of the thread
\* ------------------------------------------------------------------------

Threads == {"T1", "T2"}

\* The addresses on the heap at which the value that a thread serializes
\* lies: both ends of the address space.
DataAddrs == {0, WordMod - 1}

\* The references to a dyn Any that a thread of process p can hold.
ParPointers(p) ==
    UNION {FatPointers(p, "dyn Any", v) : v \in ValueChoices(p, "dyn Any")}

\* The calls a thread of process p can make: serialize of a dyn Any that
\* lies at one of the addresses, deserialize, as a dyn Any or a dyn Debug,
\* of what that wrote, deserialize of it with the concrete type id of u16,
\* and deserialize of the envelope of a u8 with the offset of the vtable of
\* u8 as a dyn Hello or the offset zero, that of the base vtable.
ParCalls(p) ==
    { [op |-> "serialize", ty |-> "dyn Any", addr |-> a, input |-> t] :
       t \in ParPointers(p), a \in DataAddrs }
    \cup { [op |-> "deserialize", ty |-> t, addr |-> -1,
            input |-> serialize(p, "dyn Any", ptr)] :
            ptr \in ParPointers(p), t \in {"dyn Any", "dyn Debug"} }
    \cup { [op |-> "deserialize", ty |-> "dyn Any", addr |-> -1,
            input |-> ReplaceElem(serialize(p, "dyn Any", ptr),
                                  2, WInt(type_id("u16")))] :
            ptr \in ParPointers(p) }
    \cup { [op |-> "deserialize", ty |-> "dyn Any", addr |-> -1,
            input |-> ReplaceElem(serialize(p, "dyn Any", ptr), 1,
                          VtableSerialize(p, "dyn Any", o))] :
            ptr \in { t \in ParPointers(p) : VtableAt(p, t[1]).ctype = "u8" },
            o \in {0} \cup { VtableFrom(p, a) :
                                a \in AddrsOf(p, VT("u8", "dyn Hello")) } }

\* The locals of a thread that is about to make the call c.
ThreadInit(c) ==
    [op |-> c.op, ty |-> c.ty, addr |-> c.addr, input |-> c.input, pc |-> "start",
     out |-> <<>>, cursor |-> 0, t0 |-> -1, t1 |-> -1, object |-> -1,
     result |-> NoResult]

ParInit ==
    /\ pc = "par"
    /\ sproc \in Procs
    /\ styp = "u8"
    /\ sval = [ctype |-> "u8", data |-> <<78>>]
    /\ svtable = -1
    /\ simpl = "none"
    /\ out = <<>>
    /\ sevents = <<>>
    /\ sresult = "none"
    /\ wire = WInt(0)
    /\ ncorrupt = 0
    /\ dproc = "A"
    /\ dtyp = "u8"
    /\ dimpl = "none"
    /\ t0 = -1
    /\ t1 = -1
    /\ object = -1
    /\ cursor = 0
    /\ devents = <<>>
    /\ dresult = NoResult
    /\ ub = FALSE
    /\ heap = 0
    /\ rckind = "none"
    /\ strong = 0
    /\ handles = <<>>
    /\ dropped = 0
    /\ calls \in [Threads -> {ThreadInit(c) : c \in ParCalls(sproc)}]
    /\ allocs = <<>>
    /\ owner = <<>>

\* The locals of thread th become c; nothing else changes.
ThreadSet(th, c) ==
    /\ calls' = [calls EXCEPT ![th] = c]
    /\ UNCHANGED << pc, svars, wire, ncorrupt, dvars, rckind, strong,
                    handles, dropped, allocs, owner >>

\* The position of the SeqAccess that thread th reads from.
\* Mutant: one position is shared by the threads.
CursorOfShared(th) == calls["T1"].cursor

CursorOf(th) == calls[th].cursor

\* serializer.serialize_tuple(3)
ParSerializeTuple(th) ==
    LET c == calls[th]
    IN  /\ c.op = "serialize" /\ c.pc = "start"
        /\ ThreadSet(th, [c EXCEPT !.pc = "ser_vtable"])

\* tup.serialize_element::<Vtable<T>>(&Vtable::<T>::from(vtable))?
\* Mutant: the address of the data is written in the place of the vtable.
ParSerializeVtableOfData(th) ==
    LET c == calls[th]
    IN  /\ c.pc = "ser_vtable"
        /\ ThreadSet(th, [c EXCEPT !.pc = "ser_type_id",
              !.out = Append(c.out, VtableSerialize(sproc, c.ty,
                                        VtableFrom(sproc, c.addr)))])

ParSerializeVtable(th) ==
    LET c == calls[th]
    IN  /\ c.pc = "ser_vtable"
        /\ ThreadSet(th, [c EXCEPT !.pc = "ser_type_id",
              !.out = Append(c.out, VtableSerialize(sproc, c.ty,
                                        VtableFrom(sproc, c.input[1])))])

\* tup.serialize_element::<u64>(&type_id(&t))?
ParSerializeTypeId(th) ==
    LET c == calls[th]
    IN  /\ c.pc = "ser_type_id"
        /\ ThreadSet(th, [c EXCEPT !.pc = "ser_erased",
              !.out = Append(c.out,
                             WInt(type_id(VtableAt(sproc, c.input[1]).ctype)))])

\* tup.serialize_element::<SerializeErased<T>>(&SerializeErased(t))?
ParSerializeErased(th) ==
    LET c == calls[th]
    IN  /\ c.pc = "ser_erased"
        /\ ThreadSet(th, [c EXCEPT !.pc = "ser_end",
              !.out = Append(c.out,
                             ErasedSerialize(sproc, VtableAt(sproc, c.input[1]).ctype,
                                             Tail(c.input)))])

\* tup.end()
ParSerializeEnd(th) ==
    LET c == calls[th]
    IN  /\ c.pc = "ser_end"
        /\ ThreadSet(th, [c EXCEPT !.pc = "done", !.result = WSeq("tuple", c.out)])

\* deserializer.deserialize_tuple(3, Visitor)
ParDeserializeTuple(th) ==
    LET c == calls[th]
    IN  /\ c.op = "deserialize" /\ c.pc = "start"
        /\ ThreadSet(th, IF c.input.tag \in {"tuple", "seq"}
                          THEN [c EXCEPT !.pc = "visit_t0"]
                          ELSE [c EXCEPT !.pc = "done",
                                         !.result = Err("invalid_type")])

\* let t0: Vtable<T> = seq.next_element()? ...
ParVisitT0(th) ==
    LET c == calls[th]
        k == CursorOf(th)
    IN  /\ c.pc = "visit_t0"
        /\ IF k >= Len(c.input.elems)
           THEN ThreadSet(th, [c EXCEPT !.pc = "done",
                                        !.result = Err("invalid_length_0")])
           ELSE LET r == VtableDeserialize(sproc, c.ty, c.input.elems[k + 1])
                IN  ThreadSet(th, IF r.ok
                                  THEN [c EXCEPT !.pc = "visit_t1", !.t0 = r.off,
                                                 !.cursor = k + 1]
                                  ELSE [c EXCEPT !.pc = "done", !.cursor = k + 1,
                                                 !.result = Err(r.err)])

\* let t1: u64 = seq.next_element()? ...
ParVisitT1(th) ==
    LET c == calls[th]
        k == CursorOf(th)
    IN  /\ c.pc = "visit_t1"
        /\ IF k >= Len(c.input.elems)
           THEN ThreadSet(th, [c EXCEPT !.pc = "done",
                                        !.result = Err("invalid_length_1")])
           ELSE ThreadSet(th, IF c.input.elems[k + 1].tag = "int"
                              THEN [c EXCEPT !.pc = "visit_check",
                                             !.t1 = c.input.elems[k + 1].n,
                                             !.cursor = k + 1]
                              ELSE [c EXCEPT !.pc = "done", !.cursor = k + 1,
                                             !.result = Err("codec")])

\* let t0 = t0.to(); let object = dangling with t0;
\* assert_eq!(t1, object.type_id()).  The call of type_id goes through what
\* lives at the address: where that is no vtable of T the call is undefined
\* behaviour, and what the thread comes to is marked as such.
ParVisitCheck(th) ==
    LET c == calls[th]
        vt == VtableTo(sproc, c.t0)
        e == VtableAt(sproc, vt)
        valid == ValidVtable(sproc, c.ty, vt)
    IN  /\ c.pc = "visit_check"
        /\ ThreadSet(th,
              IF e \in {NoVtable, Anchor}
              THEN [c EXCEPT !.pc = "done", !.object = vt, !.result = Ub(Crash)]
              ELSE IF c.t1 # type_id(e.ctype)
              THEN [c EXCEPT !.pc = "done", !.object = vt,
                             !.result = IF valid THEN Panic ELSE Ub(Panic)]
              ELSE [c EXCEPT !.pc = "visit_t2", !.object = vt])

\* let t2 = seq.next_element_seed(DeserializeErased(object))? ...; Ok(t2)
ParVisitT2(th) ==
    LET c == calls[th]
        k == CursorOf(th)
        valid == ValidVtable(sproc, c.ty, c.object)
    IN  /\ c.pc = "visit_t2"
        /\ IF k >= Len(c.input.elems)
           THEN ThreadSet(th, [c EXCEPT !.pc = "done",
                    !.result = IF valid THEN Err("invalid_length_2")
                               ELSE Ub(Err("invalid_length_2"))])
           ELSE \E r \in { Fatten(ErasedDeserialize(sproc,
                                      VtableAt(sproc, c.object).ctype,
                                      c.input.elems[k + 1]), c.object) } :
                    ThreadSet(th, [c EXCEPT !.pc = "done", !.cursor = k + 1,
                              !.result = IF valid THEN r ELSE Ub(r)])

ParNext ==
    \E th \in Threads :
        \/ ParSerializeTuple(th)
        \/ ParSerializeVtable(th)
        \/ ParSerializeTypeId(th)
        \/ ParSerializeErased(th)
        \/ ParSerializeEnd(th)
        \/ ParDeserializeTuple(th)
        \/ ParVisitT0(th)
        \/ ParVisitT1(th)
        \/ ParVisitCheck(th)
        \/ ParVisitT2(th)

SpecPar == ParInit /\ [][ParNext]_vars

\* ------------------------------------------------------------------------
\* Shared-owner wrappers of trait objects, Rc<dyn Hello> and Arc<dyn Hello>
\* (convenience.rs), that are created, cloned, dropped, serialized and
\* deserialized in one process
\* ------------------------------------------------------------------------

ShareInit ==
    /\ pc = "share"
    /\ sproc = "A"
    /\ styp = "dyn Hello"
    /\ sval = [ctype |-> "u8", data |-> <<78>>]
    /\ svtable = -1
    /\ simpl = "none"
    /\ out = <<>>
    /\ sevents = <<>>
    /\ sresult = "none"
    /\ wire = WInt(0)
    /\ ncorrupt = 0
    /\ dproc = "A"
    /\ dtyp = "dyn Hello"
    /\ dimpl = "none"
    /\ t0 = -1
    /\ t1 = -1
    /\ object = -1
    /\ cursor = 0
    /\ devents = <<>>
    /\ dresult = NoResult
    /\ ub = FALSE
    /\ heap = 0
    /\ rckind \in {"Rc", "Arc"}
    /\ strong = 0
    /\ handles = <<>>
    /\ dropped = 0
    /\ calls = <<>>
    /\ allocs = <<>>
    /\ owner = <<>>

\* The values put in the wrappers: the u16 values as a dyn Hello.
ShareValues(p) == {v \in ValueChoices(p, "dyn Hello") : v.ctype = "u16"}

\* The least number from 1 to MaxHandles that is not in use in f.
FreeIn(f) == CHOOSE i \in (1..MaxHandles) \ DOMAIN f :
                 \A j \in (1..MaxHandles) \ DOMAIN f : i <= j

\* f with x mapped to y.
With(f, x, y) == [j \in DOMAIN f \cup {x} |-> IF j = x THEN y ELSE f[j]]

\* The number of handles to the allocations in S.
RECURSIVE HandlesTo(_, _)
HandlesTo(own, S) ==
    IF S = {} THEN 0
    ELSE LET a == CHOOSE x \in S : TRUE
         IN  own[a] + HandlesTo(own, S \ {a})

\* One more handle can be held.
CanHold(own) == HandlesTo(own, DOMAIN own) < MaxHandles

\* A new allocation with the fat pointer ptr as its contents and one handle
\* to it: what rc::Rc::new, sync::Arc::new and the conversion from a box
\* make.
Allocate(ptr, by) ==
    /\ CanHold(owner)
    /\ allocs' = With(allocs, FreeIn(allocs),
                      [strong |-> 1, by |-> by, ptr |-> ptr])
    /\ owner' = With(owner, FreeIn(allocs), 1)

\* Rc::new(t), Arc::new(t), coerced to the trait object.
ShareNew ==
    /\ \E v \in ShareValues(sproc) :
          \E t \in FatPointers(sproc, "dyn Hello", v) : Allocate(t, "new")
    /\ UNCHANGED << pc, svars, wire, ncorrupt, dvars, rckind, strong, handles,
                    dropped, calls >>

\* impl Clone: Self(self.0.clone()), one more handle to the allocation.
ShareClone ==
    /\ CanHold(owner)
    /\ \E a \in DOMAIN allocs :
          /\ owner' = [owner EXCEPT ![a] = @ + 1]
          /\ allocs' = [allocs EXCEPT ![a].strong = @ + 1]
    /\ UNCHANGED << pc, svars, wire, ncorrupt, dvars, rckind, strong, handles,
                    dropped, calls >>

\* A handle is dropped; the allocation goes with its last handle.
ShareDrop ==
    /\ \E a \in DOMAIN allocs :
          IF allocs[a].strong = 1
          THEN /\ allocs' = [b \in DOMAIN allocs \ {a} |-> allocs[b]]
               /\ owner' = [b \in DOMAIN owner \ {a} |-> owner[b]]
          ELSE /\ allocs' = [allocs EXCEPT ![a].strong = @ - 1]
               /\ owner' = [owner EXCEPT ![a] = @ - 1]
    /\ UNCHANGED << pc, svars, wire, ncorrupt, dvars, rckind, strong, handles,
                    dropped, calls >>

\* impl Serialize for Rc<T>, Arc<T>, of a handle to the allocation a, on a
\* serializer that does not fail.
ShareSerialize ==
    /\ pc = "share"
    /\ \E a \in DOMAIN allocs :
          LET ptr == allocs[a].ptr
          IN  /\ wire' = IF rckind = "Rc"
                         THEN RcSerialize(sproc, styp, ptr)
                         ELSE ArcSerialize(sproc, styp, ptr)
              /\ svtable' = ptr[1]
              /\ sval' = [ctype |-> VtableAt(sproc, ptr[1]).ctype, data |-> Tail(ptr)]
    /\ pc' = "share_sent"
    /\ UNCHANGED << sproc, styp, simpl, out, sevents, sresult, ncorrupt, dvars,
                    ovars >>

\* impl Deserialize for Rc<T>, Arc<T>: deserialize(deserializer).map(Self),
\* where deserialize makes a Box<T> and converts it with Into: the value is
\* moved into a new allocation.
\* Mutant: a value equal to one in a live allocation becomes a handle to
\* that allocation.
ShareDeserializeInterned ==
    /\ pc = "share_sent"
    /\ LET r == IF rckind = "Rc"
                THEN RcDeserialize(dproc, dtyp, wire)
                ELSE ArcDeserialize(dproc, dtyp, wire)
           same == {a \in DOMAIN allocs : allocs[a].ptr = r.data}
       IN  IF r.kind # "ok" THEN UNCHANGED << allocs, owner >>
           ELSE IF same # {}
           THEN /\ CanHold(owner)
                /\ \E a \in same :
                      /\ owner' = [owner EXCEPT ![a] = @ + 1]
                      /\ allocs' = [allocs EXCEPT ![a].strong = @ + 1]
           ELSE Allocate(r.data, "deserialize")
    /\ pc' = "share"
    /\ UNCHANGED << svars, wire, ncorrupt, dvars, rckind, strong, handles,
                    dropped, calls >>

ShareDeserialize ==
    /\ pc = "share_sent"
    /\ LET r == IF rckind = "Rc"
                THEN RcDeserialize(dproc, dtyp, wire)
                ELSE ArcDeserialize(dproc, dtyp, wire)
       IN  IF r.kind # "ok" THEN UNCHANGED << allocs, owner >>
           ELSE Allocate(r.data, "deserialize")
    /\ pc' = "share"
    /\ UNCHANGED << svars, wire, ncorrupt, dvars, rckind, strong, handles,
                    dropped, calls >>

ShareNext ==
    \/ ShareNew
    \/ ShareClone
    \/ ShareDrop
    \/ ShareSerialize
    \/ ShareDeserialize

SpecShare == ShareInit /\ [][ShareNext]_vars

\* ------------------------------------------------------------------------
\* What can be observed of a deserialized Box<dyn Trait> in process p
\* ------------------------------------------------------------------------

\* Hello::hi through the vtable of the box: "hi <type>! <value>".
hi(p, b) == [greeting |-> VtableAt(p, b.vtable).ctype, arg |-> b.data]

\* impl Hello for c { fn hi(&self) }
hi_impl(c, data) == [greeting |-> c, arg |-> data]

\* Box::<dyn any::Any>::downcast::<c>(b.into_any()) succeeds.
downcast_ok(p, b, c) == type_id(VtableAt(p, b.vtable).ctype) = type_id(c)

\* What the data of a value of the concrete type c means whatever the
\* process it lives in: for a Box<dyn Any> the type id a downcast of it
\* succeeds with, followed by the meaning of what it points to.
RECURSIVE ValueOf(_, _, _)
ValueOf(p, c, data) ==
    IF c = "Box<dyn Any>" /\ data # <<>>
    THEN LET inner == VtableAt(p, data[1]).ctype
         IN  << type_id(inner) >> \o ValueOf(p, inner, Tail(data))
    ELSE data

\* The Box<dyn Any> that the box b of a Box<dyn Any> holds: *downcast(b).
inner_box(b) == [vtable |-> b.data[1], data |-> Tail(b.data)]

\* ------------------------------------------------------------------------
\* Properties
\* ------------------------------------------------------------------------

\* The value arrived as it was sent.
Intact == ncorrupt = 0

\* A trait object was serialized as dyn X and the deserializer of dyn Y has
\* returned.
TraitSession == pc = "done" /\ styp \in Traits /\ dtyp \in Traits

\* C1: a value serialized as a trait object of X and deserialized as a trait
\* object of the same X in the same process gives Ok, and the data of the
\* box equals the data of the value.
C1_RoundTrip ==
    (TraitSession /\ Intact /\ dtyp = styp /\ dproc = sproc)
        => (dresult.kind = "ok" /\ dresult.data = sval.data)

C1_Witness ==
    /\ TraitSession /\ Intact /\ dtyp = styp /\ dproc = sproc
    /\ styp = "dyn Hello" /\ sval.ctype = "u16" /\ sval.data = <<456>>
    /\ dresult.kind = "ok"

\* C2: a value serialized as a trait object of X and deserialized as a trait
\* object of a different Y gives an ordinary Err: no panic, no crash and no
\* value, in whatever process it is deserialized and also when the concrete
\* type implements Y.
C2_TypeMismatchRejected ==
    (TraitSession /\ Intact /\ dtyp # styp) => dresult.kind = "err"

C2_Witness ==
    /\ TraitSession /\ Intact
    /\ styp = "dyn Debug" /\ dtyp = "dyn Any" /\ sval.ctype = "u8"
    /\ Implements(sval.ctype, dtyp)
    /\ dproc = sproc
    /\ dresult = Err("type")

\* C3: the box deserialized from serialize(v) carries the vtable of v's
\* concrete type for the trait: hi() on it returns what the concrete type's
\* impl returns for the data, and a downcast to the concrete type succeeds.
C3_DispatchPreserved ==
    (TraitSession /\ Intact /\ dtyp = styp /\ dproc = sproc
        /\ dresult.kind = "ok")
        => /\ VtableAt(dproc, dresult.vtable) = VT(sval.ctype, styp)
           /\ hi(dproc, dresult) = hi_impl(sval.ctype, sval.data)
           /\ downcast_ok(dproc, dresult, sval.ctype)
           /\ \A c \in SizedTypes \ {sval.ctype} : ~downcast_ok(dproc, dresult, c)

C3_Witness ==
    /\ TraitSession /\ Intact /\ dtyp = styp /\ dproc = sproc
    /\ styp = "dyn Hello" /\ sval = [ctype |-> "u8", data |-> <<101>>]
    /\ dresult.kind = "ok"
    /\ hi(dproc, dresult) = [greeting |-> "u8", arg |-> <<101>>]

\* C4: an envelope serialized in one invocation of a binary deserializes in
\* another invocation of the same binary, whose anchor is at a different
\* address, to a box with the vtable of the same concrete type and the same
\* data.
C4_CrossInvocation ==
    (TraitSession /\ Intact /\ dtyp = styp /\ dproc # sproc
        /\ build_id(dproc) = build_id(sproc))
        => /\ dresult.kind = "ok"
           /\ VtableAt(dproc, dresult.vtable) = VT(sval.ctype, styp)
           /\ ValueOf(dproc, sval.ctype, dresult.data)
                 = ValueOf(sproc, sval.ctype, sval.data)

C4_Witness ==
    /\ TraitSession /\ Intact /\ dtyp = styp
    /\ sproc = "A" /\ dproc = "B"
    /\ AnchorAddr(sproc) # AnchorAddr(dproc)
    /\ svtable # dresult.vtable
    /\ dresult.vtable < AnchorAddr(dproc)
    /\ VtableFrom(sproc, svtable) < WordMod \div 2
    /\ dresult.kind = "ok"

\* C5: once the vtable has been resolved to a vtable of the trait, a
\* concrete type id in the envelope that differs from the id of the concrete
\* type of that vtable makes deserialize panic: no Err and no value.
C5_FingerprintMismatchPanics ==
    (dimpl = "default" /\ object # -1 /\ ValidVtable(dproc, dtyp, object)
        /\ t1 # type_id(VtableAt(dproc, object).ctype))
        => (pc = "done" /\ dresult.kind = "panic")

C5_Witness ==
    /\ dimpl = "default" /\ object # -1 /\ ValidVtable(dproc, dtyp, object)
    /\ t1 # type_id(VtableAt(dproc, object).ctype)
    /\ t1 \in {type_id(c) : c \in SizedTypes}
    /\ dresult = Panic

IndexSet(seq, e) == {i \in DOMAIN seq : seq[i] = e}

\* Every occurrence of b in seq has an occurrence of a before it.
Precedes(seq, a, b) ==
    \A i \in IndexSet(seq, b) : \E j \in IndexSet(seq, a) : j < i

\* Every occurrence of a in seq comes before every occurrence of b.
AllBefore(seq, a, b) ==
    \A i \in IndexSet(seq, a), j \in IndexSet(seq, b) : i < j

\* C6 as stated: the concrete type ids are compared only after the erased
\* payload has been deserialized.
C6_CompareAfterPayload == Precedes(devents, "deserialize_erased", "assert_eq")

\* C6 amended: the concrete type ids are compared after the relative
\* reference and the type id have been read and before the payload is read;
\* the payload is read through a vtable of the trait only after the
\* comparison.
C6_CompareBeforePayload ==
    /\ Precedes(devents, "next_vtable", "assert_eq")
    /\ Precedes(devents, "next_type_id", "assert_eq")
    /\ AllBefore(devents, "assert_eq", "next_erased")
    /\ Precedes(devents, "assert_eq", "next_erased")

C6_Witness ==
    /\ pc = "done" /\ ~ub
    /\ devents = << "deserialize_tuple", "next_vtable", "validated",
                    "next_type_id", "to", "type_id", "assert_eq",
                    "next_erased", "deserialize_erased", "box_new", "fatten" >>
    /\ dresult.kind = "ok"

\* The serialized Vtable at the head of the input is well formed and its
\* build id or its trait object type id is not that of the deserializing
\* process.
RelativeMismatch ==
    LET r == wire.elems[1]
    IN  /\ r.tag = "tuple"
        /\ Len(r.elems) = 3
        /\ AllInts(r.elems, 0, WordMod - 1)
        /\ \/ r.elems[1].n # build_id(dproc)
           \/ r.elems[2].n # type_id(dtyp)

\* C7: the build id and the trait object type id sent with the relative
\* reference are checked before the vtable pointer is resolved; when either
\* differs from the value of the deserializing process, deserialize returns
\* Err and the pointer is never resolved nor called through.
C7_ValidationPrecedesUse ==
    /\ Precedes(devents, "validated", "to")
    /\ (dimpl = "default" /\ cursor >= 1 /\ RelativeMismatch)
          => /\ pc = "done"
             /\ dresult.kind = "err"
             /\ object = -1
             /\ IndexSet(devents, "to") = {}
             /\ IndexSet(devents, "type_id") = {}
             /\ ~ub

C7_Witness ==
    /\ pc = "done" /\ Intact
    /\ styp \in Traits /\ dtyp = styp
    /\ sproc = "C" /\ dproc = "A"
    /\ cursor = 1 /\ RelativeMismatch
    /\ dresult = Err("build")

IsPrefix(s, t) == Len(s) <= Len(t) /\ SubSeq(t, 1, Len(s)) = s

SerializerCalls ==
    << "serialize_tuple", "element_vtable", "element_type_id",
       "element_erased", "end" >>

\* C8: the default serializer writes a tuple of exactly three elements in
\* this order: the relative vtable (with the build id and the type id of
\* the trait object type), the type id of the concrete type of the value,
\* the payload; nothing is written twice or out of order.
C8_EnvelopeOrder ==
    (simpl = "default" /\ sresult # "panic")
        => /\ IsPrefix(sevents, SerializerCalls)
           /\ Len(out) <= 3
           /\ Len(out) >= 1 =>
                /\ out[1].tag = "tuple"
                /\ IntsOf(out[1].elems)[1] = build_id(sproc)
                /\ IntsOf(out[1].elems)[2] = type_id(styp)
                /\ Len(out[1].elems) = 3
                /\ VtableAt(sproc, (AnchorAddr(sproc) + out[1].elems[3].n) % WordMod)
                      = VT(sval.ctype, styp)
           /\ Len(out) >= 2 => out[2] = WInt(type_id(sval.ctype))
           /\ Len(out) >= 3 =>
                ErasedDeserialize(sproc, sval.ctype, out[3]) = Ok(-1, sval.data)
           /\ sresult = "ok" =>
                /\ Len(out) = 3
                /\ sevents = SerializerCalls
                /\ (pc = "sent" /\ Intact) => wire = WSeq("tuple", out)

C8_Witness ==
    /\ pc = "sent" /\ Intact
    /\ simpl = "default" /\ sresult = "ok"
    /\ styp = "dyn Any" /\ sval.ctype = "String"
    /\ Len(wire.elems) = 3
    /\ wire.elems[2] = WInt(type_id("String"))

IsNextCall(e) == e \in {"next_vtable", "next_type_id", "next_erased"}

NextCalls == SelectSeq(devents, IsNextCall)

\* C9: the default deserializer takes the elements of the envelope in the
\* order relative vtable, concrete type id, payload, and returns Ok only
\* after all three have been taken.
C9_ConsumesInOrder ==
    dimpl = "default"
        => /\ IsPrefix(NextCalls, << "next_vtable", "next_type_id", "next_erased" >>)
           /\ cursor = Len(NextCalls)
           /\ dresult.kind = "ok" => cursor = 3

C9_Witness ==
    /\ pc = "done" /\ dimpl = "default"
    /\ dresult.kind = "ok" /\ ~ub
    /\ cursor = 3
    /\ NextCalls = << "next_vtable", "next_type_id", "next_erased" >>

\* The three strategies of the Specializing (De)Serializer.
Shape(impl) ==
    CASE impl = "sized" -> "A"
      [] impl \in {"str", "slice"} -> "B"
      [] impl = "default" -> "C"

ExpectedShape(ty) ==
    IF ty \in Traits THEN "C" ELSE IF ty \in {"str", "[u16]"} THEN "B" ELSE "A"

\* C10: a sized type is serialized directly with no envelope, str and [T] as
\* the native string or sequence with no envelope and without entering the
\* envelope code, a trait object as the tuple of three; deserialize uses the
\* same strategy for the same static type.
C10_ShapeSelection ==
    /\ simpl # "none" => Shape(simpl) = ExpectedShape(styp)
    /\ dimpl # "none" => Shape(dimpl) = ExpectedShape(dtyp)
    /\ (simpl # "none" /\ ExpectedShape(styp) # "C")
          => (sevents = <<>> /\ out = <<>> /\ sresult # "panic")
    /\ (dimpl # "none" /\ ExpectedShape(dtyp) # "C")
          => (devents = <<>> /\ cursor = 0 /\ pc = "done")
    /\ (pc = "sent" /\ Intact /\ sresult = "ok") =>
          CASE ExpectedShape(styp) = "A" ->
                 /\ wire.tag \in {"int", "str"}
                 /\ wire = NativeSerialize(styp, sval.data)
            [] ExpectedShape(styp) = "B" ->
                 /\ wire.tag = (IF styp = "str" THEN "str" ELSE "seq")
                 /\ wire.n = Len(sval.data)
                 /\ IntsOf(wire.elems) = sval.data
            [] ExpectedShape(styp) = "C" ->
                 /\ wire.tag = "tuple"
                 /\ Len(wire.elems) = 3
                 /\ sevents = SerializerCalls

C10_Witness ==
    /\ pc = "done" /\ Intact
    /\ styp = "str" /\ dtyp = "str"
    /\ simpl = "str" /\ dimpl = "str"
    /\ sevents = <<>> /\ devents = <<>>
    /\ dresult = Ok(-1, sval.data)
\* The impls for sized types, str and [T].
NativeImpls == {"sized", "str", "slice"}

\* The kind of value of the codec that serde's own impls write a value of
\* the type ty as: a number for an integer type, a string for String and
\* str, a sequence for a slice.
OwnTag(ty) ==
    CASE ty \in {"u8", "u16"} -> "int"
      [] ty \in {"String", "str"} -> "str"
      [] ty = "[u16]" -> "seq"
      [] OTHER -> "none"

\* The greatest number that fits a value of the type ty, or an element or
\* a character of it.
OwnMax(ty) == IF ty \in {"u8", "String", "str"} THEN 255 ELSE 65535

\* The numbers that the value w of the codec carries.
Carried(w) == IF w.tag = "int" THEN << w.n >> ELSE IntsOf(w.elems)

\* The value w of the codec is one that serde's own Deserialize impl of the
\* type ty accepts: of the kind of the type, made of numbers that fit.
OwnAccepts(ty, w) ==
    /\ w.tag = OwnTag(ty)
    /\ \A i \in DOMAIN w.elems : w.elems[i].tag = "int"
    /\ \A i \in DOMAIN Carried(w) : Carried(w)[i] \in 0..OwnMax(ty)

\* C11: for a sized type, str and [T], serialize writes one value of the
\* codec, of the kind that the type's own Serialize impl writes and
\* carrying the numbers of the value, with no tuple around it, no vtable
\* and no type id; deserialize returns Ok exactly on the inputs that the
\* type's own Deserialize impl accepts, with what the input carries in a box
\* without vtable, and an error on every other input, an envelope among
\* them; what was written for a type reads back as the value.
C11_NativeShapes ==
    /\ (simpl \in NativeImpls /\ pc = "sent" /\ Intact) =>
          /\ wire.tag = OwnTag(styp)
          /\ Carried(wire) = sval.data
          /\ OwnAccepts(styp, wire)
          /\ ~IsEnvelope(wire)
          /\ sevents = <<>> /\ out = <<>> /\ svtable = -1
    /\ (dimpl \in NativeImpls /\ pc = "done") =>
          /\ dresult.kind = "ok" <=> OwnAccepts(dtyp, wire)
          /\ dresult.kind = "ok" =>
                /\ dresult = Ok(-1, Carried(wire))
                /\ heap = 1
          /\ dresult.kind # "ok" =>
                /\ dresult.kind = "err"
                /\ heap = 0
          /\ IsEnvelope(wire) => dresult.kind = "err"
          /\ devents = <<>> /\ cursor = 0 /\ object = -1
    /\ (dimpl \in NativeImpls /\ pc = "done" /\ Intact /\ dtyp = styp) =>
          dresult = Ok(-1, sval.data)

C11_Witness ==
    /\ pc = "done" /\ Intact
    /\ simpl = "slice" /\ dimpl = "slice"
    /\ sval.data = <<>>
    /\ wire = WSeq("seq", <<>>)
    /\ dresult = Ok(-1, <<>>)
\* A trait object whose concrete type is the wrapper Box<dyn Any> was
\* serialized and has arrived as it was sent in a process of the same build
\* that deserializes the same trait object type.
NestedSession ==
    /\ TraitSession /\ Intact /\ dtyp = styp
    /\ build_id(dproc) = build_id(sproc)
    /\ sval.ctype = "Box<dyn Any>"

\* C12: a trait object whose concrete value is a Box<dyn Any> is written as
\* an envelope whose payload is an envelope, and deserializes to a box that
\* downcasts to Box<dyn Any>, whose content downcasts to the concrete type
\* of the original inner value and has its data.
C12_NestedRoundTrip ==
    NestedSession =>
        /\ IsEnvelope(wire) /\ Len(wire.elems) = 3
        /\ IsEnvelope(wire.elems[3]) /\ Len(wire.elems[3].elems) = 3
        /\ dresult.kind = "ok"
        /\ downcast_ok(dproc, dresult, "Box<dyn Any>")
        /\ Len(dresult.data) >= 1
        /\ downcast_ok(dproc, inner_box(dresult),
                       VtableAt(sproc, inner_box(sval).vtable).ctype)
        /\ ValueOf(dproc, "Box<dyn Any>", dresult.data)
              = ValueOf(sproc, "Box<dyn Any>", sval.data)

C12_Witness ==
    /\ NestedSession
    /\ sproc = "A" /\ dproc = "B"
    /\ VtableAt(sproc, inner_box(sval).vtable).ctype = "u16"
    /\ downcast_ok(dproc, inner_box(dresult), "u16")
    /\ inner_box(dresult).data = <<456>>
    /\ inner_box(dresult).vtable # inner_box(sval).vtable
\* The default deserializer has returned on an envelope of fewer than three
\* elements.
ShortEnvelope ==
    /\ pc = "done" /\ dimpl = "default"
    /\ wire.tag \in {"tuple", "seq"}
    /\ Len(wire.elems) < 3

\* C13 as stated: an envelope that ends after fewer than three elements
\* gives an ordinary Err, whatever the elements that are present.
C13_ShortEnvelopeIsErr == ShortEnvelope => dresult.kind = "err"

\* C13 amended: an envelope that ends after k < 3 elements never gives a
\* value.  It gives Err, invalid_length(k) when the elements present are
\* valid, except that with k = 2 and a relative vtable that resolves to a
\* vtable of the trait, a concrete type id that differs from the id of that
\* vtable's type panics; a relative vtable that passes the checks and
\* resolves to no vtable of the trait is undefined behaviour.
C13_ShortEnvelopeNoValue ==
    ShortEnvelope =>
        LET k == Len(wire.elems)
            r0 == VtableDeserialize(dproc, dtyp, wire.elems[1])
            vt == VtableTo(dproc, r0.off)
        IN  /\ dresult.kind # "ok"
            /\ k = 0 => dresult = Err("invalid_length_0")
            /\ (k >= 1 /\ ~r0.ok) => dresult = Err(r0.err)
            /\ (k = 1 /\ r0.ok) => dresult = Err("invalid_length_1")
            /\ (k = 2 /\ r0.ok /\ wire.elems[2].tag # "int") => dresult.kind = "err"
            /\ (k = 2 /\ r0.ok /\ wire.elems[2].tag = "int"
                  /\ ValidVtable(dproc, dtyp, vt)) =>
                  IF wire.elems[2].n = type_id(VtableAt(dproc, vt).ctype)
                  THEN dresult = Err("invalid_length_2")
                  ELSE dresult = Panic
            /\ (k = 2 /\ r0.ok /\ wire.elems[2].tag = "int"
                  /\ ~ValidVtable(dproc, dtyp, vt)) => ub

C13_Witness ==
    /\ ShortEnvelope
    /\ Len(wire.elems) = 2
    /\ VtableDeserialize(dproc, dtyp, wire.elems[1]).ok
    /\ ValidVtable(dproc, dtyp, object)
    /\ wire.elems[2].n # type_id(VtableAt(dproc, object).ctype)
    /\ dresult = Panic
\* The envelope w has three elements, its relative vtable passes the
\* checks of process p for dyn t and resolves to a vtable of dyn t, and its
\* concrete type id is the id of that vtable's type.
GoodHeader(p, t, w) ==
    /\ w.tag \in {"tuple", "seq"}
    /\ Len(w.elems) = 3
    /\ VtableDeserialize(p, t, w.elems[1]).ok
    /\ LET vt == VtableTo(p, VtableDeserialize(p, t, w.elems[1]).off)
       IN  /\ ValidVtable(p, t, vt)
           /\ w.elems[2] = WInt(type_id(VtableAt(p, vt).ctype))

\* The concrete type a good header of w resolves to.
HeaderType(p, t, w) ==
    VtableAt(p, VtableTo(p, VtableDeserialize(p, t, w.elems[1]).off)).ctype

\* The depth, counted in envelopes, at which the codec of a concrete type
\* refuses the payload w of type c, all envelopes around it being good; 0
\* when there is no such failure.
RECURSIVE FailureDepth(_, _, _)
FailureDepth(p, c, w) ==
    IF c # "Box<dyn Any>"
    THEN IF NativeDeserialize(c, w).ok THEN 0 ELSE 1
    ELSE IF ~GoodHeader(p, "dyn Any", w) THEN 0
    ELSE LET d == FailureDepth(p, HeaderType(p, "dyn Any", w), w.elems[3])
         IN  IF d = 0 THEN 0 ELSE d + 1

\* C14: when the payload of a good envelope, or of a good envelope nested
\* in it at any depth, is refused by the codec of its concrete type, the
\* top-level deserialize returns an ordinary Err: no panic and no value.
C14_PayloadErrorPropagates ==
    (pc = "done" /\ dimpl = "default" /\ GoodHeader(dproc, dtyp, wire)
        /\ FailureDepth(dproc, HeaderType(dproc, dtyp, wire), wire.elems[3]) > 0)
        => (dresult = Err("custom") /\ ~ub)

C14_Witness ==
    /\ pc = "done" /\ dimpl = "default" /\ GoodHeader(dproc, dtyp, wire)
    /\ FailureDepth(dproc, HeaderType(dproc, dtyp, wire), wire.elems[3]) = 2
    /\ dresult = Err("custom")
\* The pointer that was given to serialize.
Pointer ==
    IF simpl = "default" THEN << svtable >> \o sval.data ELSE sval.data

\* C15: a Box, Rc or Arc wrapper of a pointer serializes to what the free
\* function serialize writes for that pointer, and deserializes an input
\* to what the free function deserialize returns for it, wrapped: the same
\* value, the same error, the same panic.
C15_WrappersSameProtocol ==
    /\ (pc = "sent" /\ Intact /\ sresult = "ok") =>
          /\ BoxSerialize(sproc, styp, Pointer) = wire
          /\ RcSerialize(sproc, styp, Pointer) = wire
          /\ ArcSerialize(sproc, styp, Pointer) = wire
    /\ (pc = "done" /\ ~ub) =>
          /\ BoxDeserialize(dproc, dtyp, wire) = MapSelf(dresult)
          /\ RcDeserialize(dproc, dtyp, wire) = MapSelf(dresult)
          /\ ArcDeserialize(dproc, dtyp, wire) = MapSelf(dresult)

C15_Witness ==
    /\ pc = "done" /\ Intact /\ ~ub
    /\ styp = "dyn Hello" /\ dtyp = "dyn Hello"
    /\ sval = [ctype |-> "u16", data |-> <<456>>]
    /\ RcSerialize(sproc, styp, Pointer) = wire
    /\ dresult.kind = "ok"
    /\ RcDeserialize(dproc, dtyp, wire) = Ok(-1, << dresult.vtable, 456 >>)
\* a and b are the same address: they differ by a multiple of the word.
SameWord(a, b) == (a - b + 2 * WordMod) % WordMod = 0

\* C16: the offset sent for an address is the address minus the anchor, the
\* address decoded from an offset is the anchor plus the offset, both as
\* words that wrap; decoding in the same process what was encoded gives
\* the address back, also for an address below the anchor, and decoding in
\* another process of the build gives the address moved as the anchor is.
C16_RelativeArithmetic ==
    /\ pc \in {"rel_from", "rel_to"} =>
          /\ t0 \in 0..(WordMod - 1)
          /\ SameWord(t0 + AnchorAddr(sproc), svtable)
    /\ pc = "rel_to" =>
          /\ object \in 0..(WordMod - 1)
          /\ SameWord(object, AnchorAddr(dproc) + t0)
          /\ SameWord(object + AnchorAddr(sproc), svtable + AnchorAddr(dproc))
          /\ dproc = sproc => object = svtable

C16_Witness ==
    /\ pc = "rel_to"
    /\ dproc = sproc
    /\ svtable < AnchorAddr(sproc)
    /\ t0 > AnchorAddr(sproc)
    /\ object = svtable
\* visit_seq is running and has not asked for the payload, or is about to.
BeforePayload == pc \in {"visit_t0", "visit_t1", "visit_check", "visit_t2"}

\* C20 as stated: the box for the concrete value is allocated before the
\* payload is read.
C20_AllocatedBeforePayload ==
    /\ pc = "visit_t2" => heap >= 1
    /\ Precedes(devents, "box_new", "next_erased")

\* C20 amended: nothing is allocated before the payload is read; the
\* caller passes a dangling pointer that carries the vtable only.  The
\* concrete value is deserialized first and returned by value; the box is
\* allocated after that and only when there is a value, the value is
\* moved into it, and its pointer is fattened last.  The default
\* deserializer returns Ok exactly when it has allocated the box.
C20_AllocatedAfterPayload ==
    /\ BeforePayload =>
          /\ heap = 0
          /\ IndexSet(devents, "box_new") = {}
    /\ pc = "visit_box" =>
          /\ cursor = 3
          /\ dresult.kind = "value"
          /\ IndexSet(devents, "deserialize_erased") # {}
          /\ IndexSet(devents, "box_new") = {}
          /\ IndexSet(devents, "fatten") = {}
    /\ Precedes(devents, "deserialize_erased", "box_new")
    /\ AllBefore(devents, "next_erased", "box_new")
    /\ Precedes(devents, "box_new", "fatten")
    /\ (pc = "done" /\ dimpl = "default") =>
          /\ heap >= 1 <=> dresult.kind = "ok"
          /\ IndexSet(devents, "box_new") # {} <=> dresult.kind = "ok"
          /\ IndexSet(devents, "fatten") # {} <=> dresult.kind = "ok"

C20_Witness ==
    /\ pc = "done" /\ dimpl = "default"
    /\ dresult.kind = "ok"
    /\ heap = 1
    /\ SubSeq(devents, Len(devents) - 3, Len(devents))
         = << "next_erased", "deserialize_erased", "box_new", "fatten" >>
\* The steps that a call of the default serializer or of visit_seq still
\* has to take, at most, before it returns.
Rank ==
    CASE pc = "visit_t0" -> 5
      [] pc \in {"ser_vtable", "visit_t1"} -> 4
      [] pc \in {"ser_type_id", "visit_check"} -> 3
      [] pc \in {"ser_erased", "visit_t2"} -> 2
      [] pc \in {"ser_end", "visit_box"} -> 1
      [] OTHER -> 0

\* A serialize or deserialize call has started and has not returned.
InCall == Rank > 0

\* The next step of the call in progress.
CallStep ==
    \/ SerializeElementVtable \/ SerializeElementTypeId
    \/ SerializeElementErased \/ SerializeEnd
    \/ VisitT0 \/ VisitT1 \/ VisitCheck \/ VisitT2 \/ VisitBox

\* A call has returned.
Returned == pc \in {"sent", "failed", "done"}

\* C19 as stated: a call in progress can always take its next step, and a
\* call that has returned has ended in Ok, Err or a panic.
C19_OkErrOrPanic ==
    /\ InCall => ENABLED CallStep
    /\ pc \in {"sent", "failed"} => sresult \in {"ok", "err", "panic"}
    /\ pc = "done" => dresult.kind \in {"ok", "err", "panic"}

\* C19 amended: a call in progress can always take its next step, waiting
\* for nothing, and every step leaves strictly fewer steps to take, so that
\* the call returns; it ends in exactly one of Ok, Err and a panic, unless
\* a relative vtable that passed the checks resolves to no vtable of the
\* trait, which is undefined behaviour and can also end in a crash.
C19_Terminates ==
    /\ [](InCall => ENABLED CallStep)
    /\ [][InCall => Rank' < Rank]_vars
    /\ [](pc \in {"sent", "failed"} => sresult \in {"ok", "err", "panic"})
    /\ [](pc = "sent" => sresult = "ok")
    /\ [](pc = "failed" => sresult \in {"err", "panic"})
    /\ []((pc = "done" /\ ~ub) => dresult.kind \in {"ok", "err", "panic"})
    /\ [](pc = "done" => dresult.kind \in {"ok", "err", "panic", "crash"})
    /\ []((pc = "done" /\ dresult.kind = "crash") => ub)
    /\ [](Returned => ~InCall)

C19_Witness ==
    /\ pc = "done" /\ ub
    /\ dimpl = "default"
    /\ dresult = Crash
    /\ Len(devents) >= 4
\* The number of live handles of the Rc or Arc.
LiveHandles == Cardinality(DOMAIN handles)

\* What a step does to the strong count, given what it does to the handles.
CountFollowsHandles ==
    /\ (rckind # "none" /\ LiveHandles' = LiveHandles + 1)
          => strong' = strong + 1
    /\ (LiveHandles' = LiveHandles - 1)
          => (strong' = strong - 1
                /\ dropped' = dropped + (IF strong' = 0 THEN 1 ELSE 0))
    /\ (LiveHandles' >= LiveHandles) => dropped' = dropped

\* C17: the strong count of an Rc or Arc equals the number of its live
\* handles; a clone adds one to it and a drop takes one from it; the value
\* is dropped once, by the drop that brings the count to zero, and is not
\* dropped while a handle is live.
C17_RefCount ==
    /\ [](rckind # "none" => strong = LiveHandles)
    /\ [](dropped <= 1)
    /\ [](dropped = 1 <=> (rckind # "none" /\ LiveHandles = 0))
    /\ [][CountFollowsHandles]_vars

C17_Witness ==
    /\ rckind = "Arc"
    /\ 1 \notin DOMAIN handles
    /\ LiveHandles = 3
    /\ strong = 3
    /\ dropped = 0
\* What the call of thread th returns when no other call runs.
Alone(th) ==
    IF calls[th].op = "serialize"
    THEN serialize(sproc, calls[th].ty, calls[th].input)
    ELSE deserialize(sproc, calls[th].ty, calls[th].input)

PayloadRequested ==
    /\ pc = "done" /\ dimpl = "default"
    /\ IndexSet(devents, "next_erased") # {}

\* What the payload of the input decodes to, as the concrete type of the
\* vtable that the envelope names.
PayloadDecoded ==
    ErasedDeserialize(dproc, VtableAt(dproc, object).ctype, wire.elems[3])

\* A step of the default deserializer that allocates does so for a value
\* that exists: the payload step leaves the boxes that the value it returns
\* owns, and the box for the value is allocated by the step after it, which
\* is taken only with the value in hand.
AllocatesForValue ==
    (dimpl' = "default" /\ heap' > heap) =>
        \/ /\ pc = "visit_t2" /\ pc' = "visit_box"
           /\ dresult'.kind = "value"
        \/ /\ pc = "visit_box" /\ pc' = "done"
           /\ dresult.kind = "value"
           /\ dresult' = Ok(object, dresult.data)
           /\ heap' = heap + 1

\* C21: when the payload fails to deserialize, no box is left allocated and
\* nothing was boxed or fattened; a box is allocated only in a step that
\* has the whole value, and a box that exists holds the whole value, which
\* is what the payload decodes to unless a call was undefined behaviour.
C21_BoxOnlyFromWholeValue ==
    /\ []((PayloadRequested /\ dresult.kind # "ok") =>
            /\ heap = 0
            /\ IndexSet(devents, "box_new") = {}
            /\ IndexSet(devents, "fatten") = {})
    /\ [][AllocatesForValue]_vars
    /\ []((pc = "visit_box" /\ ~ub) => PayloadDecoded = Ok(-1, dresult.data))
    /\ []((PayloadRequested /\ heap >= 1) =>
            /\ dresult.kind = "ok"
            /\ Cardinality(IndexSet(devents, "box_new")) = 1
            /\ ~ub => PayloadDecoded = Ok(-1, dresult.data))

C21_Witness ==
    /\ PayloadRequested /\ ~ub
    /\ cursor = 3
    /\ PayloadDecoded.kind = "err"
    /\ dresult.kind = "err"
    /\ heap = 0
\* The envelope names a vtable of the trait and a concrete type id that is
\* not the id of the concrete type of that vtable, and the deserializer has
\* compared them.
FingerprintMismatch ==
    /\ dimpl = "default" /\ object # -1
    /\ ValidVtable(dproc, dtyp, object)
    /\ t1 # type_id(VtableAt(dproc, object).ctype)

\* C22: on a fingerprint mismatch the deserializer panics with the payload
\* not asked for: two elements of the tuple were consumed, the payload
\* deserializer of the concrete type was not called and nothing was boxed.
C22_MismatchReadsNoPayload ==
    FingerprintMismatch =>
        /\ dresult = Panic
        /\ cursor = 2
        /\ IndexSet(devents, "next_erased") = {}
        /\ IndexSet(devents, "deserialize_erased") = {}
        /\ devents[Len(devents)] = "assert_eq"
        /\ heap = 0

C22_Witness ==
    /\ FingerprintMismatch
    /\ pc = "done" /\ dresult = Panic
    /\ Len(wire.elems) = 3
    /\ cursor = 2
\* The allocations that a step has made.
NewAllocs == DOMAIN allocs' \ DOMAIN allocs

\* A step in which a wrapper is deserialized makes one allocation, with a
\* strong count of one and one handle, and whose contents are those of the
\* value that was serialized; the allocations there were keep their
\* contents, their counts and their handles.
DeserializeIsFresh ==
    (pc = "share_sent" /\ pc' = "share") =>
        /\ Cardinality(NewAllocs) = 1
        /\ \A a \in NewAllocs :
              /\ allocs'[a].strong = 1
              /\ allocs'[a].by = "deserialize"
              /\ allocs'[a].ptr = << svtable >> \o sval.data
              /\ owner'[a] = 1
        /\ \A a \in DOMAIN allocs :
              /\ a \in DOMAIN allocs'
              /\ allocs'[a] = allocs[a]
              /\ owner'[a] = owner[a]

\* C23: a deserialized Rc or Arc is a new allocation with one owner, also
\* when the value it was serialized from is still alive and shared; the
\* strong count of every allocation is the number of its handles.
C23_FreshAllocation ==
    /\ [](\A a \in DOMAIN allocs : allocs[a].strong = owner[a])
    /\ [][DeserializeIsFresh]_vars

C23_Witness ==
    /\ pc = "share"
    /\ \E a, b, c \in DOMAIN allocs :
          /\ b # c
          /\ allocs[a].by = "new" /\ allocs[a].strong = 2
          /\ allocs[b].by = "deserialize" /\ allocs[b].strong = 1
          /\ allocs[c].by = "deserialize" /\ allocs[c].strong = 1
          /\ allocs[b].ptr = allocs[a].ptr
          /\ allocs[c].ptr = allocs[a].ptr
\* A call on the tuple serializer by the default serializer.
SerializerStep ==
    \/ SerializeElementVtable \/ SerializeElementTypeId
    \/ SerializeElementErased \/ SerializeEnd

\* The default serializer has returned an error of the codec.
SerializeFailed == simpl = "default" /\ pc = "failed" /\ sresult = "err"

\* C24: when opening the tuple or writing an element fails, the default
\* serializer returns the error at once: the elements written are those of
\* the calls that succeeded before, no call follows and the tuple is not
\* closed; the tuple is closed only with all three elements written.
C24_StopsAtFirstFailure ==
    /\ SerializeFailed =>
          /\ IndexSet(sevents, "end") = {}
          /\ Len(sevents) <= 4
          /\ Len(out) = (IF sevents = <<>> THEN 0 ELSE Len(sevents) - 1)
          /\ ~ENABLED SerializerStep
    /\ (simpl = "default" /\ IndexSet(sevents, "end") # {}) =>
          /\ sresult = "ok"
          /\ Len(out) = 3
          /\ sevents = SerializerCalls

C24_Witness ==
    /\ SerializeFailed
    /\ sevents = << "serialize_tuple", "element_vtable" >>
    /\ Len(out) = 1
\* The default serializer ran on a trait object type and is past the test
\* of the meta type.
DefaultOnTraitObject ==
    /\ simpl = "default" /\ styp \in Traits
    /\ pc \notin {"idle", "rc", "rel", "par", "share"}

ctype_of(th) == VtableAt(sproc, calls[th].input[1]).ctype

\* The calls of the threads a and b are serialize calls, under the same
\* trait, on values of the same concrete type with equal data.
SameValue(a, b) ==
    /\ calls[a].op = "serialize" /\ calls[b].op = "serialize"
    /\ calls[a].ty = calls[b].ty
    /\ ctype_of(a) = ctype_of(b)
    /\ ValueOf(sproc, ctype_of(a), Tail(calls[a].input))
         = ValueOf(sproc, ctype_of(b), Tail(calls[b].input))

\* Both calls have returned.
BothDone(a, b) == calls[a].pc = "done" /\ calls[b].pc = "done"

\* C26 as stated: two serialize calls in one process on values of one
\* concrete type with equal data, under one trait, return the same
\* envelope, element by element.
C26_Deterministic ==
    \A a, b \in DOMAIN calls :
        (SameValue(a, b) /\ BothDone(a, b)) =>
            calls[a].result = calls[b].result

\* What deserialize makes of the envelope that thread th returned: the
\* result, with the meaning of the value in the place of its data.
ReadBack(th) ==
    LET r == deserialize(sproc, calls[th].ty, calls[th].result)
    IN  IF r.kind # "ok" THEN << r.kind >>
        ELSE << "ok", VtableAt(sproc, r.vtable),
                ValueOf(sproc, VtableAt(sproc, r.vtable).ctype, r.data) >>

\* The envelope w with a zero in the place of its offset and of the offsets
\* of the envelopes nested in its payload.
RECURSIVE SansOffsets(_)
SansOffsets(w) ==
    IF IsEnvelope(w) /\ Len(w.elems) = 3
    THEN ReplaceElem(ReplaceElem(w, 1, ReplaceElem(w.elems[1], 3, WInt(0))),
                     3, SansOffsets(w.elems[3]))
    ELSE w

\* C26 amended: the envelope is a function of the reference and of nothing
\* else: not of where the value lies on the heap nor of the calls made
\* before.  Two references to values of one concrete type with equal data
\* under one trait can hold different vtables of that type and trait, at
\* the top or in a box nested in the value: their envelopes are the same
\* exactly when the references hold the same vtable at every level; in any
\* case the envelopes are the same but for the offsets, at the top and
\* nested, the offset at the top is the same exactly when the vtable at
\* the top is and leads to a vtable of the same type and trait, and the
\* envelopes deserialize to equal values.
C26_SameUpToVtable ==
    \A a, b \in DOMAIN calls :
        (SameValue(a, b) /\ BothDone(a, b)) =>
            LET ea == calls[a].result.elems
                eb == calls[b].result.elems
            IN  /\ calls[a].result = calls[b].result
                     <=> calls[a].input = calls[b].input
                /\ SansOffsets(calls[a].result) = SansOffsets(calls[b].result)
                /\ calls[a].result.tag = "tuple" /\ Len(ea) = 3
                /\ calls[b].result.tag = "tuple" /\ Len(eb) = 3
                /\ SubSeq(ea[1].elems, 1, 2) = SubSeq(eb[1].elems, 1, 2)
                /\ VtableAt(sproc, VtableTo(sproc, ea[1].elems[3].n))
                     = VT(ctype_of(a), calls[a].ty)
                /\ VtableAt(sproc, VtableTo(sproc, eb[1].elems[3].n))
                     = VT(ctype_of(a), calls[a].ty)
                /\ ea[1].elems[3].n = eb[1].elems[3].n
                     <=> calls[a].input[1] = calls[b].input[1]
                /\ ea[2] = eb[2]
                /\ ctype_of(a) # "Box<dyn Any>" => ea[3] = eb[3]
                /\ ReadBack(a) = ReadBack(b)
                /\ ReadBack(a)[1] = "ok"

C26_Witness ==
    /\ pc = "par"
    /\ SameValue("T1", "T2")
    /\ BothDone("T1", "T2")
    /\ calls["T1"].input[1] # calls["T2"].input[1]
    /\ calls["T1"].result # calls["T2"].result
    /\ SansOffsets(calls["T1"].result) = SansOffsets(calls["T2"].result)
    /\ ReadBack("T1") = ReadBack("T2")
====
